---------------------------- MODULE Spec2Model ----------------------------
(***************************************************************************)
(* Model of supercat1337/color-scheme.                                     *)
(*                                                                         *)
(* Two same-origin browsing contexts share one localStorage:               *)
(*   Main  evaluates the module src/src/index.js (SystemSchemeStorage,     *)
(*         PreferredSchemeStorage, CurrentColorSchemeStorage and the DOM   *)
(*         wiring); it owns a sessionStorage and a document;               *)
(*   Other holds a PreferredSchemeStorage of its own.  Its sessionStorage  *)
(*         and document never meet Main's, so they are not modelled.       *)
(* A third party of the same origin (a script that is not this module) may *)
(* write or remove the persisted key; the browser then queues a storage    *)
(* event for every loaded context.                                         *)
(*                                                                         *)
(* JavaScript's null is the string Null below; "" is the empty string.     *)
(***************************************************************************)
EXTENDS Naturals, Sequences, FiniteSets, TLC

Main == "main"
Other == "other"
Tabs == {Main, Other}

Null == "<null>"
\* No constructor of the other context is between its read and its write.
NotReading == "<idle>"
PreferredKey == "preferredColorScheme"
SettingsKey == "theme-settings"
\* What another context stores under the key "theme-settings".
OtherKeyValues == {Null, "dark"}

\* Longest queue of undelivered storage events a context may hold.
MaxQueue == 1
\* Most subscriptions the page's scripts make on one loaded page.
MaxRegs == 2

\* Values handed to the two setters by the page's scripts.
SetterInputs == {"dark", "light", "auto", "blue"}
\* The same with null, which the setters are handed by untyped callers.
SoloInputs == SetterInputs \cup {Null}
\* What the storages may hold before the module first runs.
InitialStored == {Null, "", "auto", "dark", "light", "garbage"}
\* What another script of the origin stores under the preferred key
\* (Null: removeItem).
ForeignValues == {Null, "garbage", "dark", "auto"}
\* The same, where the subscribers are what is looked at.
ExternalValues == {"dark"}

Concrete == {"dark", "light"}
ThreeState == {"dark", "light", "auto"}

\* The two stores that notify through an EventEmitter.
EmitterStores == {"current", "preferred"}
\* Names the page's scripts assign to the two theme-name fields.
ThemeNames == {"dark", "light", "night"}
\* Callbacks of the page's scripts; "g" throws whenever it is invoked.
Callbacks == {"f", "g"}
\* Callbacks where one may assign the store's scheme while it is notified:
\* "s" is (scheme) => { currentSchemeStorage.scheme = ReentryScheme }.
ReentryCallbacks == {"f", "s"}
ReentryScheme == "light"
\* Callbacks that change the store's subscriptions while they are
\* notified: "u" is () => { offF() }, with offF an unsubscribe function of
\* f; "a" is () => { currentSchemeStorage.onSchemeChange(f) }, which
\* drops the function it is handed back.
ActingCallbacks == {"f", "u", "a"}
\* Most registrations made from inside notifications on one loaded page.
MaxLate == 2
\* The event names used on a free-standing EventEmitter: an event of the
\* application and the emitter's two events about its listener lists.
SpecialEvents == {"#has-listeners", "#no-listeners"}
EmitterEvents == {"e"} \cup SpecialEvents
\* Most listeners one event of that emitter has.
MaxListeners == 2
\* The listeners index.js registers on the current-scheme store, in order.
BootListeners == <<"updateMeta", "applyTheme">>

LightColor == "#FFFFFF"
DarkColor == "#212529"
DarkThemeName == "dark"
LightThemeName == "light"

VARIABLES
    loaded,          \* loaded[t]: context t has run its constructor(s)
    localPreferred,  \* localStorage["preferredColorScheme"], Null when absent
    pref,            \* pref[t]: PreferredSchemeStorage.#preferredColorScheme of t
    evq,             \* evq[t]: storage events queued for t's window listener
    matchesDark,     \* matchMedia("(prefers-color-scheme: dark)").matches
    mqlPending,      \* a media-query change event is queued for Main's listener
    session,         \* Main's sessionStorage["currentColorScheme"], Null when absent
    cur,             \* CurrentColorSchemeStorage.#currentColorScheme (Main)
    dataBsTheme,     \* document.documentElement data-bs-theme (Main), Null when absent
    metaContent,     \* content of the theme-color meta element (Main), Null when absent
    darkThemeName,   \* CurrentColorSchemeStorage.darkThemeName (Main)
    lightThemeName,  \* CurrentColorSchemeStorage.lightThemeName (Main)
    themeSettings,   \* localStorage["theme-settings"], Null when absent
    settings,        \* part_002: let settings (a JavaScript value)
    currentColorScheme,  \* part_002: let currentColorScheme
    styleSheetUsed,  \* part_002: let styleSheetUsed
    adoptedStyleSheets,  \* sheets pushed to document.adoptedStyleSheets
    themeMetas,      \* meta elements appended by addMetaThemeColor
    systemHandlers,  \* change handlers initThemeModule has registered
    events,          \* a free-standing EventEmitter: its field events
    ctorData,        \* Other's constructor: the data it has read, or NotReading
    curListeners,    \* EventEmitter.events["current-scheme-change"] of Main's
                     \* current store: records [cb, reg], reg the rank of the
                     \* on() call that pushed the entry
    prefListeners,   \* events["preferred-scheme-change"] of Main's preferred store
    sysListeners,    \* change listeners the page's scripts added through
                     \* SystemSchemeStorage.onSchemeChange: [cb, fn, mql]
    nextReg,         \* rank of the next subscription on this page
    handles,         \* unsubscribe functions returned so far: [store, cb, reg]
    lastOp,          \* what the last step did: call, argument, throw, writes,
                     \* emits, and the subscriber invocations in order
    lastExplicit     \* history: the scheme the last successful call of the
                     \* current-scheme setter by the page's scripts asked for
                     \* (resolved), Null before any

subVars == <<curListeners, prefListeners, sysListeners, nextReg, handles>>

themeVars == <<darkThemeName, lightThemeName>>

\* What the stores' setters, the event handlers and on() never touch.
freeVars == <<themeSettings, settings, currentColorScheme, styleSheetUsed,
              adoptedStyleSheets, themeMetas, systemHandlers>>

restVars == <<themeVars, freeVars, ctorData, events>>

vars == <<loaded, localPreferred, pref, evq, matchesDark, mqlPending,
          session, cur, dataBsTheme, metaContent, curListeners, prefListeners,
          sysListeners, nextReg, handles, lastOp, lastExplicit,
          darkThemeName, lightThemeName, themeSettings, settings,
          currentColorScheme, styleSheetUsed, adoptedStyleSheets, themeMetas,
          systemHandlers, ctorData, events>>

--------------------------------------------------------------------------
(* Pure helpers *)

\* JavaScript truthiness of a string-or-null value.
Falsy(v) == v = Null \/ v = ""

\* tools.js getSystemPreferredColorScheme
getSystemPreferredColorScheme == IF matchesDark THEN "dark" ELSE "light"

\* Variant: the constructor adopts whatever non-empty string the key holds.
PreferredLoadedUnvalidated(data) == IF Falsy(data) THEN "auto" ELSE data

\* PreferredSchemeStorage constructor: the value adopted (and written back)
\* for the raw content `data` of the persisted key.
PreferredLoaded(data) ==
    IF data = "dark" \/ data = "light" \/ data = "auto" THEN data ELSE "auto"

\* Variant: the listener's validation misses "dark".
ValidatedValueWithoutDark(newValue) ==
    LET value == IF Falsy(newValue) THEN "auto" ELSE newValue
    IN  IF value = "light" \/ value = "auto" THEN value ELSE "auto"

\* Storage listener: event.newValue coerced to a valid scheme.
ValidatedValue(newValue) ==
    LET value == IF Falsy(newValue) THEN "auto" ELSE newValue
    IN  IF value = "dark" \/ value = "light" \/ value = "auto"
        THEN value ELSE "auto"

\* Storage listener: the argument handed to emit("preferred-scheme-change", ..).
ListenerEmitArg(newValue) == newValue

\* Variant: the constructor never looks at the session-scoped value.
CurrentLoadedWithoutCache(raw, preferredColorScheme, systemColorScheme) ==
    IF preferredColorScheme = "auto"
    THEN systemColorScheme ELSE preferredColorScheme

\* CurrentColorSchemeStorage constructor: the three-step cascade.
CurrentLoaded(raw, preferredColorScheme, systemColorScheme) ==
    LET got == IF Falsy(raw) THEN "unknown" ELSE raw
        loadedColorScheme ==
            IF ~(got = "dark" \/ got = "light") THEN "unknown" ELSE got
    IN  IF loadedColorScheme = "unknown"
        THEN (IF preferredColorScheme = "auto"
              THEN systemColorScheme ELSE preferredColorScheme)
        ELSE loadedColorScheme

\* Variant: the setter's guard is missing.
CurrentSetterNeverThrows(colorScheme) == FALSE

\* CurrentColorSchemeStorage.set scheme: the guard that throws.
CurrentSetterThrows(colorScheme) ==
    colorScheme # "dark" /\ colorScheme # "light" /\ colorScheme # "auto"

\* Variant: "auto" resolved through the system scheme alone.
ResolveSchemeBySystem(colorScheme, preferredColorScheme, systemColorScheme) ==
    IF colorScheme = "auto" THEN systemColorScheme ELSE colorScheme

\* Storage.setItem(key, value) stores the string conversion of value:
\* "null" for null, a string as it is.
StorageString(value) == IF value = Null THEN "null" ELSE value

\* CurrentColorSchemeStorage.set scheme: "auto" resolved through the
\* preferred scheme, then through the system scheme.
ResolveScheme(colorScheme, preferredColorScheme, systemColorScheme) ==
    IF colorScheme = "auto"
    THEN (IF preferredColorScheme = "auto"
          THEN systemColorScheme ELSE preferredColorScheme)
    ELSE colorScheme

\* CurrentColorSchemeStorage.getDefaultTheme
getDefaultThemeFixedNames(scheme) ==
    IF scheme = "dark" THEN DarkThemeName ELSE LightThemeName

getDefaultTheme(scheme) ==
    IF scheme = "dark" THEN darkThemeName ELSE lightThemeName

\* Variant: the two colours are taken the wrong way round.
MetaForSwapped(scheme) == IF scheme = "dark" THEN LightColor ELSE DarkColor

\* index.js: content of the theme-color meta element for a scheme.
MetaFor(scheme) == IF scheme = "dark" THEN DarkColor ELSE LightColor

\* Variant: the system-change handler forwards whatever the preference.
SystemHandlerAlwaysForwards(preferredColorScheme) == TRUE

\* index.js: the system-change handler forwards only while preferred is auto.
SystemHandlerForwards(preferredColorScheme) == preferredColorScheme = "auto"

--------------------------------------------------------------------------
(* The free-function API (unnamed/part_002): JavaScript values and JSON *)

\* JavaScript's undefined, as the value of a property that is not there.
Undefined == "<undefined>"

\* The values the variable settings takes: an object with its colorScheme
\* property, null, a number.  Reading a property of a number gives
\* undefined; reading a property of null throws a TypeError.
Obj(c) == [kind |-> "object", colorScheme |-> c]
JsNull == [kind |-> "null", colorScheme |-> Undefined]
JsNumber == [kind |-> "number", colorScheme |-> Undefined]
JsValues ==
    {Obj(c) : c \in {"dark", "light", "auto", "blue", Undefined}}
        \cup {JsNull, JsNumber}

\* What the page's scripts hand to setSettings.
NewSettings == {Obj(c) : c \in SetterInputs}

\* JSON.stringify of a value of JsValues.
JsonStringify(v) ==
    CASE v.kind = "null" -> "null"
      [] v.kind = "number" -> "5"
      [] OTHER -> IF v.colorScheme = Undefined
                  THEN "{}"
                  ELSE "{\"colorScheme\":\"" \o v.colorScheme \o "\"}"

\* JSON.parse: the value whose text this is; it throws a SyntaxError on a
\* text that is no JSON ("" included).
Parseable(text) == \E v \in JsValues : JsonStringify(v) = text
JsonParse(text) == CHOOSE v \in JsValues : JsonStringify(v) = text

\* What localStorage["theme-settings"] may hold when a function of the
\* module reads it (Null: the key is absent).
SettingsStored ==
    {Null, "", "garbage", "null", "5", "{}",
     JsonStringify(Obj("dark")), JsonStringify(Obj("auto")),
     JsonStringify(Obj("blue"))}

\* Most calls of initThemeModule on one page.
MaxInits == 2

getPreferredColorScheme == IF matchesDark THEN "dark" ELSE "light"

\* element.setAttribute converts its value to a string.
ToAttribute(v) == IF v = Undefined THEN "undefined" ELSE v

\* loadSettings: the value of settings after the call, and the content of
\* the key after it.  The catch block stores the default and leaves the
\* variable as it was.
LoadedSettings(data, current) ==
    IF data # Null /\ Parseable(data) THEN JsonParse(data) ELSE current

StoredAfterLoad(data) ==
    IF data # Null /\ ~Parseable(data) THEN JsonStringify(Obj("auto")) ELSE data

\* setCurrentColorScheme: it throws on what is not "dark", "light" or
\* "auto"; "auto" is replaced by the system's scheme, whatever the
\* settings say.
FreeSetterThrows(colorScheme) == colorScheme \notin ThreeState

FreeResolve(colorScheme, systemColorScheme) ==
    IF colorScheme = "auto" THEN systemColorScheme ELSE colorScheme

\* initThemeModule: the scheme it stores in currentColorScheme.
FreeInitScheme(settingsValue, systemColorScheme) ==
    IF settingsValue.colorScheme = "auto" THEN systemColorScheme
                                          ELSE settingsValue.colorScheme

\* The change handler initThemeModule registers: it forwards the system's
\* scheme while settings.colorScheme is "auto".
FreeHandlerForwards(settingsValue) == settingsValue.colorScheme = "auto"

\* adaptInputsToUserPreferredColorScheme: the number of sheets it has
\* pushed, after a call.  The variant pushes at every call.
AdaptedUnguarded(used, sheets) == sheets + 1

Adapted(used, sheets) == IF used THEN sheets ELSE sheets + 1

--------------------------------------------------------------------------
(* EventEmitter and the media-query listeners *)

\* A callback of the page's scripts that throws when invoked.
Throws(cb) == cb = "g"

\* Variant: on() puts the new listener in front of the list.
OnFirst(listeners, cb, reg) == <<[cb |-> cb, reg |-> reg]>> \o listeners

\* EventEmitter.on: events[event].push(listener).
On(listeners, cb, reg) == Append(listeners, [cb |-> cb, reg |-> reg])

\* Array.prototype.indexOf on the listener list; 0 when absent.
IndexOf(listeners, cb) ==
    LET found == {i \in 1..Len(listeners) : listeners[i].cb = cb}
    IN  IF found = {} THEN 0
        ELSE CHOOSE i \in found : \A j \in found : i <= j

\* Variant: removeListener drops every entry of the listener.
RemoveListenerEverywhere(listeners, cb) ==
    SelectSeq(listeners, LAMBDA e : e.cb # cb)

\* EventEmitter.removeListener: splice(indexOf(listener), 1).
RemoveListener(listeners, cb) ==
    LET idx == IndexOf(listeners, cb)
    IN  IF idx > 0
        THEN SubSeq(listeners, 1, idx - 1)
                 \o SubSeq(listeners, idx + 1, Len(listeners))
        ELSE listeners

\* One invocation of a subscriber: what it is handed and what it would read
\* from the store (scheme) and from the store's key (stored) at that moment.
Call(store, e, arg, scheme, stored) ==
    [store |-> store, cb |-> e.cb, reg |-> e.reg, arg |-> arg,
     scheme |-> scheme, stored |-> stored, threw |-> Throws(e.cb)]

\* Variant: emit has no try/catch, the first throw ends the loop.
EmitUntilThrow(store, listeners, arg, scheme, stored) ==
    LET thrown == {i \in 1..Len(listeners) : Throws(listeners[i].cb)}
        last == IF thrown = {} THEN Len(listeners)
                ELSE CHOOSE i \in thrown : \A j \in thrown : i <= j
    IN  IF listeners = <<>> THEN <<>>
        ELSE [i \in 1..last |-> Call(store, listeners[i], arg, scheme, stored)]

\* EventEmitter.emit: every listener of a copy of the list is called in
\* turn, each call inside try/catch.
Emit(store, listeners, arg, scheme, stored) ==
    IF listeners = <<>> THEN <<>>
    ELSE [i \in 1..Len(listeners) |->
             Call(store, listeners[i], arg, scheme, stored)]

\* window.matchMedia returns a new MediaQueryList object at every call; the
\* object is named by the call that made it.
MatchMedia(site, reg) == <<site, reg>>

\* EventTarget.addEventListener on the MediaQueryList mql.
AddEventListener(listeners, mql, fn, cb) ==
    Append(listeners, [cb |-> cb, reg |-> fn, mql |-> mql])

\* EventTarget.removeEventListener on the MediaQueryList mql.
RemoveEventListener(listeners, mql, fn) ==
    SelectSeq(listeners, LAMBDA e : ~(e.mql = mql /\ e.reg = fn))

--------------------------------------------------------------------------
(* Bookkeeping *)

\* The handle field of a step that is no call of on() or of an unsubscriber.
NoHandle == [store |-> Null, cb |-> Null, reg |-> 0]

Op(op, tab, arg, threw, sw, lw, ce, pe, calls) ==
    [op |-> op, tab |-> tab, arg |-> arg, threw |-> threw,
     sessionWrites |-> sw, localWrites |-> lw, curEmit |-> ce, prefEmit |-> pe,
     calls |-> calls, handle |-> NoHandle, ret |-> Null, signals |-> <<>>]

\* A call of on() or of an unsubscriber, with the handle returned or called.
SubOp(op, h) ==
    [Op(op, Main, h.cb, FALSE, <<>>, <<>>, <<>>, <<>>, <<>>)
        EXCEPT !.handle = h]

\* The browser's storage event: queued for every other loaded context when
\* a write changes the stored value.
Receivers(writer, old, new) ==
    IF old = new THEN {} ELSE {u \in Tabs : u # writer /\ loaded[u]}

Room(writer, old, new) ==
    \A u \in Receivers(writer, old, new) : Len(evq[u]) < MaxQueue

Queued(q, writer, old, new, key) ==
    [u \in Tabs |->
        IF u \in Receivers(writer, old, new)
        THEN Append(q[u], [key |-> key, newValue |-> new])
        ELSE q[u]]

--------------------------------------------------------------------------
Init ==
    /\ loaded = [t \in Tabs |-> FALSE]
    /\ localPreferred \in InitialStored
    /\ pref = [t \in Tabs |-> "auto"]
    /\ evq = [t \in Tabs |-> <<>>]
    /\ matchesDark \in BOOLEAN
    /\ mqlPending = FALSE
    /\ session \in InitialStored
    /\ cur = "light"
    /\ dataBsTheme = Null
    /\ metaContent = Null
    /\ curListeners = <<>>
    /\ prefListeners = <<>>
    /\ sysListeners = <<>>
    /\ nextReg = 1
    /\ handles = {}
    /\ lastOp = Op("init", Null, Null, FALSE, <<>>, <<>>, <<>>, <<>>, <<>>)
    /\ lastExplicit = Null
    /\ darkThemeName = DarkThemeName
    /\ lightThemeName = LightThemeName
    /\ themeSettings = Null
    /\ settings = Obj("auto")
    /\ currentColorScheme = "light"
    /\ styleSheetUsed = FALSE
    /\ adoptedStyleSheets = 0
    /\ themeMetas = 0
    /\ systemHandlers = 0
    /\ ctorData = NotReading
    /\ events = [event \in EmitterEvents |-> <<>>]

\* Main loads (or reloads) the page: index.js is evaluated.  The old
\* document, with its listeners and queued events, is gone.
Bootstrap ==
    LET data == localPreferred
        p == PreferredLoaded(data)
        c == CurrentLoaded(session, p, getSystemPreferredColorScheme)
    IN  /\ Room(Main, data, p)
        /\ loaded' = [loaded EXCEPT ![Main] = TRUE]
        /\ pref' = [pref EXCEPT ![Main] = p]
        /\ localPreferred' = p
        /\ evq' = [Queued(evq, Main, data, p, PreferredKey) EXCEPT ![Main] = <<>>]
        /\ mqlPending' = FALSE
        /\ cur' = c
        /\ metaContent' = MetaFor(c)
        /\ darkThemeName' = DarkThemeName
        /\ lightThemeName' = LightThemeName
        /\ dataBsTheme' = (IF c = "dark" THEN darkThemeName' ELSE lightThemeName')
        /\ curListeners' = [i \in 1..Len(BootListeners) |->
                               [cb |-> BootListeners[i], reg |-> i]]
        /\ prefListeners' = <<>>
        /\ sysListeners' = <<>>
        /\ nextReg' = Len(BootListeners) + 1
        /\ handles' = {}
        /\ lastOp' = Op("Bootstrap", Main, session, FALSE, <<>>, <<p>>, <<>>, <<>>,
                        <<>>)
        /\ UNCHANGED <<matchesDark, session, lastExplicit>>
        /\ UNCHANGED freeVars
        /\ UNCHANGED <<ctorData, events>>

\* The other context constructs its PreferredSchemeStorage (load or reload).
ConstructPreferred ==
    LET data == localPreferred
        p == PreferredLoaded(data)
    IN  /\ Room(Other, data, p)
        /\ loaded' = [loaded EXCEPT ![Other] = TRUE]
        /\ pref' = [pref EXCEPT ![Other] = p]
        /\ localPreferred' = p
        /\ evq' = [Queued(evq, Other, data, p, PreferredKey) EXCEPT ![Other] = <<>>]
        /\ lastOp' = Op("ConstructPreferred", Other, data, FALSE, <<>>, <<p>>,
                        <<>>, <<>>, <<>>)
        /\ UNCHANGED <<matchesDark, mqlPending, session, cur, dataBsTheme,
                       metaContent, lastExplicit>>
        /\ UNCHANGED subVars
        /\ UNCHANGED restVars

\* The constructor of the other context's PreferredSchemeStorage in two
\* steps, as localStorage is shared with contexts that run in parallel:
\* first localStorage.getItem, ...
ConstructRead ==
    /\ ~loaded[Other]
    /\ ctorData = NotReading
    /\ ctorData' = localPreferred
    /\ lastOp' = Op("ConstructRead", Other, localPreferred, FALSE, <<>>, <<>>,
                    <<>>, <<>>, <<>>)
    /\ UNCHANGED <<loaded, localPreferred, pref, evq, matchesDark, mqlPending,
                   session, cur, dataBsTheme, metaContent, lastExplicit>>
    /\ UNCHANGED subVars
    /\ UNCHANGED <<themeVars, freeVars, events>>

\* ... then the assignment of the field and localStorage.setItem with
\* what was read, or with "auto".
ConstructWrite ==
    LET data == ctorData
        p == PreferredLoaded(data)
    IN  /\ ctorData # NotReading
        /\ Room(Other, localPreferred, p)
        /\ ctorData' = NotReading
        /\ loaded' = [loaded EXCEPT ![Other] = TRUE]
        /\ pref' = [pref EXCEPT ![Other] = p]
        /\ localPreferred' = p
        /\ evq' = [Queued(evq, Other, localPreferred, p, PreferredKey)
                      EXCEPT ![Other] = <<>>]
        /\ lastOp' = Op("ConstructWrite", Other, data, FALSE, <<>>, <<p>>,
                        <<>>, <<>>, <<>>)
        /\ UNCHANGED <<matchesDark, mqlPending, session, cur, dataBsTheme,
                       metaContent, lastExplicit>>
        /\ UNCHANGED subVars
        /\ UNCHANGED <<themeVars, freeVars, events>>

\* The subscribers of context t's preferred store; the scripts of the other
\* context subscribe to nothing.
PreferredListeners(t) == IF t = Main THEN prefListeners ELSE <<>>

\* Variant: the setter has no early return for the value it holds.
PreferredSetAlways(t, scheme) ==
    /\ loaded[t]
    /\ Room(t, localPreferred, scheme)
    /\ pref' = [pref EXCEPT ![t] = scheme]
    /\ localPreferred' = scheme
    /\ evq' = Queued(evq, t, localPreferred, scheme, PreferredKey)
    /\ lastOp' = Op("PreferredSet", t, scheme, FALSE, <<>>, <<scheme>>,
                    <<>>, <<scheme>>,
                    Emit("preferred", PreferredListeners(t), scheme, scheme,
                         scheme))
    /\ UNCHANGED <<loaded, matchesDark, mqlPending, session, cur, dataBsTheme,
                   metaContent, lastExplicit>>
    /\ UNCHANGED subVars
    /\ UNCHANGED restVars

\* Variant: the setter notifies before it writes the persisted key.
PreferredSetEmitFirst(t, scheme) ==
    /\ loaded[t]
    /\ IF scheme = pref[t]
       THEN /\ lastOp' = Op("PreferredSet", t, scheme, FALSE, <<>>, <<>>, <<>>,
                            <<>>, <<>>)
            /\ UNCHANGED <<pref, localPreferred, evq>>
       ELSE /\ Room(t, localPreferred, scheme)
            /\ pref' = [pref EXCEPT ![t] = scheme]
            /\ localPreferred' = scheme
            /\ evq' = Queued(evq, t, localPreferred, scheme, PreferredKey)
            /\ lastOp' = Op("PreferredSet", t, scheme, FALSE, <<>>, <<scheme>>,
                            <<>>, <<scheme>>,
                            Emit("preferred", PreferredListeners(t), scheme,
                                 scheme, localPreferred))
    /\ UNCHANGED <<loaded, matchesDark, mqlPending, session, cur, dataBsTheme,
                   metaContent, lastExplicit>>
    /\ UNCHANGED subVars
    /\ UNCHANGED restVars

\* Variant: a change of the preferred scheme is carried on to the current
\* scheme of the same page.
PreferredSetCascading(t, scheme) ==
    /\ loaded[t]
    /\ IF scheme = pref[t]
       THEN /\ lastOp' = Op("PreferredSet", t, scheme, FALSE, <<>>, <<>>, <<>>,
                            <<>>, <<>>)
            /\ UNCHANGED <<pref, localPreferred, evq, cur, session>>
       ELSE LET held == scheme
                written == held
                r == ResolveScheme("auto", held, getSystemPreferredColorScheme)
            IN  /\ Room(t, localPreferred, written)
                /\ pref' = [pref EXCEPT ![t] = held]
                /\ localPreferred' = written
                /\ evq' = Queued(evq, t, localPreferred, written, PreferredKey)
                /\ cur' = (IF t = Main THEN r ELSE cur)
                /\ session' = (IF t = Main THEN r ELSE session)
                /\ lastOp' = Op("PreferredSet", t, scheme, FALSE, <<>>,
                                <<written>>, <<>>, <<scheme>>,
                                Emit("preferred", PreferredListeners(t), scheme,
                                     held, written))
    /\ UNCHANGED <<loaded, matchesDark, mqlPending, dataBsTheme, metaContent,
                   lastExplicit>>
    /\ UNCHANGED subVars
    /\ UNCHANGED restVars

\* preferredSchemeStorage.scheme = scheme, in context t.  The setter has no
\* guard that throws: every value other than the one held is stored.  The
\* field is assigned, then the key is written, then the subscribers run.
PreferredSet(t, scheme) ==
    /\ loaded[t]
    /\ IF scheme = pref[t]
       THEN /\ lastOp' = Op("PreferredSet", t, scheme, FALSE, <<>>, <<>>, <<>>,
                            <<>>, <<>>)
            /\ UNCHANGED <<pref, localPreferred, evq>>
       ELSE LET held == scheme
                written == StorageString(held)
            IN  /\ Room(t, localPreferred, written)
                /\ pref' = [pref EXCEPT ![t] = held]
                /\ localPreferred' = written
                /\ evq' = Queued(evq, t, localPreferred, written, PreferredKey)
                /\ lastOp' = Op("PreferredSet", t, scheme, FALSE, <<>>,
                                <<written>>, <<>>, <<scheme>>,
                                Emit("preferred", PreferredListeners(t), scheme,
                                     held, written))
    /\ UNCHANGED <<loaded, matchesDark, mqlPending, session, cur, dataBsTheme,
                   metaContent, lastExplicit>>
    /\ UNCHANGED subVars
    /\ UNCHANGED restVars

\* Variant: the setter updates the cache and notifies, and does not
\* write the session-scoped key.
SetCurrentSchemeWithoutPersist(op, colorScheme, tail) ==
    LET r == ResolveScheme(colorScheme, pref[Main], getSystemPreferredColorScheme)
    IN  IF CurrentSetterThrows(colorScheme)
        THEN /\ lastOp' = Op(op, Main, colorScheme, TRUE, <<>>, <<>>, <<>>, <<>>,
                             tail)
             /\ UNCHANGED <<session, cur, metaContent, dataBsTheme>>
        ELSE IF r = cur
        THEN /\ lastOp' = Op(op, Main, colorScheme, FALSE, <<>>, <<>>, <<>>, <<>>,
                             tail)
             /\ UNCHANGED <<session, cur, metaContent, dataBsTheme>>
        ELSE /\ session' = session
             /\ cur' = r
             /\ metaContent' = MetaFor(r)
             /\ dataBsTheme' = getDefaultTheme(r)
             /\ lastOp' = Op(op, Main, colorScheme, FALSE, <<>>, <<>>, <<r>>, <<>>,
                             Emit("current", curListeners, r, r, session)
                                 \o tail)

\* Variant: the setter compares the raw input with the cache.
SetCurrentSchemeRawCompare(op, colorScheme, tail) ==
    LET r == ResolveScheme(colorScheme, pref[Main], getSystemPreferredColorScheme)
    IN  IF CurrentSetterThrows(colorScheme)
        THEN /\ lastOp' = Op(op, Main, colorScheme, TRUE, <<>>, <<>>, <<>>, <<>>,
                             tail)
             /\ UNCHANGED <<session, cur, metaContent, dataBsTheme>>
        ELSE IF colorScheme = cur
        THEN /\ lastOp' = Op(op, Main, colorScheme, FALSE, <<>>, <<>>, <<>>, <<>>,
                             tail)
             /\ UNCHANGED <<session, cur, metaContent, dataBsTheme>>
        ELSE /\ session' = r
             /\ cur' = r
             /\ metaContent' = MetaFor(r)
             /\ dataBsTheme' = getDefaultTheme(r)
             /\ lastOp' = Op(op, Main, colorScheme, FALSE, <<r>>, <<>>, <<r>>, <<>>,
                             Emit("current", curListeners, r, r, r) \o tail)

\* Variant: the setter notifies before it writes the key and the cache.
SetCurrentSchemeEmitFirst(op, colorScheme, tail) ==
    LET r == ResolveScheme(colorScheme, pref[Main], getSystemPreferredColorScheme)
    IN  IF CurrentSetterThrows(colorScheme)
        THEN /\ lastOp' = Op(op, Main, colorScheme, TRUE, <<>>, <<>>, <<>>, <<>>,
                             tail)
             /\ UNCHANGED <<session, cur, metaContent, dataBsTheme>>
        ELSE IF r = cur
        THEN /\ lastOp' = Op(op, Main, colorScheme, FALSE, <<>>, <<>>, <<>>, <<>>,
                             tail)
             /\ UNCHANGED <<session, cur, metaContent, dataBsTheme>>
        ELSE /\ session' = r
             /\ cur' = r
             /\ metaContent' = MetaFor(r)
             /\ dataBsTheme' = getDefaultTheme(r)
             /\ lastOp' = Op(op, Main, colorScheme, FALSE, <<r>>, <<>>, <<r>>, <<>>,
                             Emit("current", curListeners, r, cur, session)
                                 \o tail)

\* The body of CurrentColorSchemeStorage.set scheme, with the two listeners
\* index.js registers on it; `op` names the caller in lastOp and `tail` the
\* subscriber invocations that follow the call within the same step.  The
\* key is written, then the cache is assigned, then the subscribers run.
SetCurrentScheme(op, colorScheme, tail) ==
    LET r == ResolveScheme(colorScheme, pref[Main], getSystemPreferredColorScheme)
    IN  IF CurrentSetterThrows(colorScheme)
        THEN /\ lastOp' = Op(op, Main, colorScheme, TRUE, <<>>, <<>>, <<>>, <<>>,
                             tail)
             /\ UNCHANGED <<session, cur, metaContent, dataBsTheme>>
        ELSE IF r = cur
        THEN /\ lastOp' = Op(op, Main, colorScheme, FALSE, <<>>, <<>>, <<>>, <<>>,
                             tail)
             /\ UNCHANGED <<session, cur, metaContent, dataBsTheme>>
        ELSE LET written == StorageString(r)
                 cached == r
             IN  /\ session' = written
                 /\ cur' = cached
                 /\ metaContent' = MetaFor(cached)
                 /\ dataBsTheme' = getDefaultTheme(cached)
                 /\ lastOp' = Op(op, Main, colorScheme, FALSE, <<written>>, <<>>,
                                 <<cached>>, <<>>,
                                 Emit("current", curListeners, cached, cached,
                                      written) \o tail)

\* Variant: the setter also stores the scheme under the durable key.
CurrentSetDurable(colorScheme) ==
    /\ loaded[Main]
    /\ SetCurrentScheme("CurrentSet", colorScheme, <<>>)
    /\ lastExplicit' = IF lastOp'.threw THEN lastExplicit ELSE cur'
    /\ localPreferred' = IF lastOp'.threw THEN localPreferred
                                          ELSE StorageString(cur')
    /\ UNCHANGED <<loaded, pref, evq, matchesDark, mqlPending>>
    /\ UNCHANGED subVars
    /\ UNCHANGED restVars

\* currentSchemeStorage.scheme = colorScheme, called by the page's scripts.
CurrentSet(colorScheme) ==
    /\ loaded[Main]
    /\ SetCurrentScheme("CurrentSet", colorScheme, <<>>)
    /\ lastExplicit' = IF lastOp'.threw THEN lastExplicit ELSE cur'
    /\ UNCHANGED <<loaded, localPreferred, pref, evq, matchesDark, mqlPending>>
    /\ UNCHANGED subVars
    /\ UNCHANGED restVars

\* The setter of the current store with its notification carried out
\* listener by listener, so that a listener may call the setter again.
\* st holds what a call reads and writes: the cache, the session-scoped
\* key, the document, and the record of the writes and of the invocations
\* made so far, in the order they happen.
RECURSIVE SetIn(_, _)
RECURSIVE EmitIn(_, _, _, _)

\* EventEmitter.emit from its i-th listener on: args and the copy of the
\* list are those taken when emit was entered.
EmitIn(st, listeners, i, arg) ==
    IF i > Len(listeners) THEN st
    ELSE LET e == listeners[i]
             called == [st EXCEPT !.calls =
                           Append(@, Call("current", e, arg, st.cur,
                                          st.session))]
             after ==
                 CASE e.cb = "updateMeta" ->
                          [called EXCEPT !.metaContent = MetaFor(arg)]
                   [] e.cb = "applyTheme" ->
                          [called EXCEPT !.dataBsTheme =
                              getDefaultTheme(called.cur)]
                   [] e.cb = "s" -> SetIn(called, ReentryScheme)
                   [] OTHER -> called
         IN  EmitIn(after, listeners, i + 1, arg)

\* CurrentColorSchemeStorage.set scheme for a valid colorScheme.
SetIn(st, colorScheme) ==
    LET r == ResolveScheme(colorScheme, pref[Main],
                           getSystemPreferredColorScheme)
    IN  IF r = st.cur THEN st
        ELSE EmitIn([st EXCEPT !.session = r, !.cur = r,
                               !.sessionWrites = Append(@, r),
                               !.curEmit = Append(@, r)],
                    curListeners, 1, r)

\* currentSchemeStorage.scheme = colorScheme, called by the page's scripts
\* on a page where a subscriber may assign the scheme in turn.
CurrentSetReentrant(colorScheme) ==
    LET st == SetIn([cur |-> cur, session |-> session,
                     metaContent |-> metaContent,
                     dataBsTheme |-> dataBsTheme, sessionWrites |-> <<>>,
                     curEmit |-> <<>>, calls |-> <<>>], colorScheme)
    IN  /\ loaded[Main]
        /\ colorScheme \in ThreeState
        /\ cur' = st.cur
        /\ session' = st.session
        /\ metaContent' = st.metaContent
        /\ dataBsTheme' = st.dataBsTheme
        /\ lastOp' = Op("CurrentSet", Main, colorScheme, FALSE,
                        st.sessionWrites, <<>>, st.curEmit, <<>>, st.calls)
        /\ lastExplicit' = cur'
        /\ UNCHANGED <<loaded, localPreferred, pref, evq, matchesDark,
                       mqlPending>>
        /\ UNCHANGED subVars
        /\ UNCHANGED restVars

\* EventEmitter.emit carried out listener by listener where the listeners
\* subscribe and unsubscribe: st holds the emitter's list (events[event]),
\* the next registration stamp and the invocations made so far; snapshot
\* is the copy emit took with slice() when it was entered.
RECURSIVE EmitSnapshotLive(_, _, _, _)
RECURSIVE EmitSnapshot(_, _, _, _)

\* What invoking the entry e does to the emitter.
Invoke(st, e, arg) ==
    LET called == [st EXCEPT !.calls =
                       Append(@, Call("current", e, arg, arg,
                                      StorageString(arg)))]
    IN  CASE e.cb = "u" ->
                 [called EXCEPT !.listeners = RemoveListener(@, "f")]
          [] e.cb = "a" ->
                 [called EXCEPT !.listeners = On(@, "f", called.nextReg),
                                !.nextReg = @ + 1]
          [] OTHER -> called

\* Variant: the loop walks the emitter's own list, not a copy.
EmitSnapshotLive(st, snapshot, i, arg) ==
    IF i > Len(st.listeners) THEN st
    ELSE EmitSnapshotLive(Invoke(st, st.listeners[i], arg), snapshot, i + 1,
                          arg)

EmitSnapshot(st, snapshot, i, arg) ==
    IF i > Len(snapshot) THEN st
    ELSE EmitSnapshot(Invoke(st, snapshot[i], arg), snapshot, i + 1, arg)

\* currentSchemeStorage.scheme = colorScheme, called by the page's scripts
\* on a page whose subscribers subscribe and unsubscribe when notified.
CurrentSetActing(colorScheme) ==
    LET r == ResolveScheme(colorScheme, pref[Main],
                           getSystemPreferredColorScheme)
        late == Cardinality({i \in 1..Len(curListeners) :
                                curListeners[i].cb = "a"})
        st == EmitSnapshot([listeners |-> curListeners, nextReg |-> nextReg,
                            calls |-> <<>>], curListeners, 1, r)
    IN  /\ loaded[Main]
        /\ colorScheme \in ThreeState
        /\ nextReg + late <= Len(BootListeners) + MaxRegs + MaxLate + 1
        /\ IF r = cur
           THEN /\ lastOp' = Op("CurrentSet", Main, colorScheme, FALSE, <<>>,
                                <<>>, <<>>, <<>>, <<>>)
                /\ UNCHANGED <<session, cur, metaContent, dataBsTheme,
                               curListeners, nextReg>>
           ELSE /\ session' = StorageString(r)
                /\ cur' = r
                /\ metaContent' = MetaFor(r)
                /\ dataBsTheme' = getDefaultTheme(r)
                /\ curListeners' = st.listeners
                /\ nextReg' = st.nextReg
                /\ lastOp' = Op("CurrentSet", Main, colorScheme, FALSE,
                                <<StorageString(r)>>, <<>>, <<r>>, <<>>,
                                st.calls)
        /\ lastExplicit' = cur'
        /\ UNCHANGED <<loaded, localPreferred, pref, evq, matchesDark,
                       mqlPending, prefListeners, sysListeners, handles>>
        /\ UNCHANGED restVars

\* The operating system's preference flips; the browser queues a change
\* event for the media-query listeners of a loaded page.
SystemChange ==
    /\ matchesDark' = ~matchesDark
    /\ mqlPending' = loaded[Main]
    /\ lastOp' = Op("SystemChange", Null, Null, FALSE, <<>>, <<>>, <<>>, <<>>,
                    <<>>)
    /\ UNCHANGED <<loaded, localPreferred, pref, evq, session, cur, dataBsTheme,
                   metaContent, lastExplicit>>
    /\ UNCHANGED subVars
    /\ UNCHANGED restVars

\* The media-query change event is dispatched to the MediaQueryList objects
\* in the order they were made: first the one of index.js, whose listener
\* calls the index.js handler with the scheme read at that moment, then
\* those of the page's scripts.
SystemEvent ==
    LET colorScheme == getSystemPreferredColorScheme
        tail == Emit("system", sysListeners, colorScheme, colorScheme, Null)
    IN  /\ mqlPending
        /\ mqlPending' = FALSE
        /\ IF SystemHandlerForwards(pref[Main])
           THEN SetCurrentScheme("SystemEvent", colorScheme, tail)
           ELSE /\ lastOp' = Op("SystemEvent", Main, colorScheme,
                                FALSE, <<>>, <<>>, <<>>, <<>>, tail)
                /\ UNCHANGED <<session, cur, metaContent, dataBsTheme>>
        /\ UNCHANGED <<loaded, localPreferred, pref, evq, matchesDark,
                       lastExplicit>>
        /\ UNCHANGED subVars
        /\ UNCHANGED restVars

\* Variant: the storage listener does not look at event.key.
StorageEventAnyKey(t) ==
    /\ evq[t] # <<>>
    /\ LET event == Head(evq[t])
           validatedValue == ValidatedValue(event.newValue)
       IN  /\ evq' = [evq EXCEPT ![t] = Tail(evq[t])]
           /\ IF validatedValue # pref[t]
              THEN /\ pref' = [pref EXCEPT ![t] = validatedValue]
                   /\ lastOp' = Op("StorageEvent", t, event.newValue, FALSE,
                                   <<>>, <<>>, <<>>,
                                   <<ListenerEmitArg(event.newValue)>>,
                                   Emit("preferred", PreferredListeners(t),
                                        ListenerEmitArg(event.newValue),
                                        validatedValue, localPreferred))
              ELSE /\ pref' = pref
                   /\ lastOp' = Op("StorageEvent", t, event.newValue, FALSE,
                                   <<>>, <<>>, <<>>, <<>>, <<>>)
    /\ UNCHANGED <<loaded, localPreferred, matchesDark, mqlPending, session, cur,
                   dataBsTheme, metaContent, lastExplicit>>
    /\ UNCHANGED subVars
    /\ UNCHANGED restVars

\* A queued storage event is dispatched to context t's window listener.
StorageEvent(t) ==
    /\ evq[t] # <<>>
    /\ LET event == Head(evq[t])
           validatedValue == ValidatedValue(event.newValue)
       IN  /\ evq' = [evq EXCEPT ![t] = Tail(evq[t])]
           /\ IF event.key = PreferredKey /\ validatedValue # pref[t]
              THEN /\ pref' = [pref EXCEPT ![t] = validatedValue]
                   /\ lastOp' = Op("StorageEvent", t, event.newValue, FALSE,
                                   <<>>, <<>>, <<>>,
                                   <<ListenerEmitArg(event.newValue)>>,
                                   Emit("preferred", PreferredListeners(t),
                                        ListenerEmitArg(event.newValue),
                                        validatedValue, localPreferred))
              ELSE /\ pref' = pref
                   /\ lastOp' = Op("StorageEvent", t, event.newValue, FALSE,
                                   <<>>, <<>>, <<>>, <<>>, <<>>)
    /\ UNCHANGED <<loaded, localPreferred, matchesDark, mqlPending, session, cur,
                   dataBsTheme, metaContent, lastExplicit>>
    /\ UNCHANGED subVars
    /\ UNCHANGED restVars

\* A third-party script of the origin stores v under the preferred key
\* (Null: it removes the key).
ForeignWrite(v) ==
    /\ Room(Null, localPreferred, v)
    /\ localPreferred # v
    /\ localPreferred' = v
    /\ evq' = Queued(evq, Null, localPreferred, v, PreferredKey)
    /\ lastOp' = Op("ForeignWrite", Null, v, FALSE, <<>>, <<>>, <<>>, <<>>, <<>>)
    /\ UNCHANGED <<loaded, pref, matchesDark, mqlPending, session, cur,
                   dataBsTheme, metaContent, lastExplicit>>
    /\ UNCHANGED subVars
    /\ UNCHANGED restVars

\* Another context of the origin writes text under another key of
\* localStorage, the key "theme-settings" (Null: removes it).
ForeignKeyWrite(text) ==
    /\ Room(Null, themeSettings, text)
    /\ themeSettings # text
    /\ themeSettings' = text
    /\ evq' = Queued(evq, Null, themeSettings, text, SettingsKey)
    /\ lastOp' = Op("ForeignKeyWrite", Null, text, FALSE, <<>>, <<>>, <<>>,
                    <<>>, <<>>)
    /\ UNCHANGED <<loaded, localPreferred, pref, matchesDark, mqlPending,
                   session, cur, dataBsTheme, metaContent, lastExplicit>>
    /\ UNCHANGED <<settings, currentColorScheme, styleSheetUsed,
                   adoptedStyleSheets, themeMetas, systemHandlers>>
    /\ UNCHANGED subVars
    /\ UNCHANGED <<themeVars, ctorData, events>>

\* Another context of the origin calls localStorage.clear() on a store
\* that holds the preferred key: the event has a null key and a null
\* newValue.
ForeignClear ==
    /\ localPreferred # Null
    /\ Room(Null, localPreferred, Null)
    /\ localPreferred' = Null
    /\ themeSettings' = Null
    /\ evq' = Queued(evq, Null, localPreferred, Null, Null)
    /\ lastOp' = Op("ForeignClear", Null, Null, FALSE, <<>>, <<>>, <<>>, <<>>,
                    <<>>)
    /\ UNCHANGED <<loaded, pref, matchesDark, mqlPending, session, cur,
                   dataBsTheme, metaContent, lastExplicit>>
    /\ UNCHANGED <<settings, currentColorScheme, styleSheetUsed,
                   adoptedStyleSheets, themeMetas, systemHandlers>>
    /\ UNCHANGED subVars
    /\ UNCHANGED <<themeVars, ctorData, events>>

\* A script of the page subscribes callback cb to a store:
\* store.onSchemeChange(cb).  The returned unsubscribe function is kept.
Subscribe(store, cb) ==
    LET h == [store |-> store, cb |-> cb, reg |-> nextReg]
    IN  /\ loaded[Main]
        /\ nextReg <= Len(BootListeners) + MaxRegs
        /\ nextReg' = nextReg + 1
        /\ handles' = handles \cup {h}
        /\ curListeners' = IF store = "current"
                           THEN On(curListeners, cb, nextReg) ELSE curListeners
        /\ prefListeners' = IF store = "preferred"
                            THEN On(prefListeners, cb, nextReg) ELSE prefListeners
        /\ sysListeners' =
               IF store = "system"
               THEN AddEventListener(sysListeners,
                        MatchMedia("onSystemColorSchemeChange", nextReg),
                        nextReg, cb)
               ELSE sysListeners
        /\ lastOp' = SubOp("Subscribe", h)
        /\ UNCHANGED restVars
        /\ UNCHANGED <<loaded, localPreferred, pref, evq, matchesDark,
                       mqlPending, session, cur, dataBsTheme, metaContent,
                       lastExplicit>>

\* A script of the page calls an unsubscribe function it was handed, outside
\* of any notification.
Unsubscribe(h) ==
    /\ h \in handles
    /\ curListeners' = IF h.store = "current"
                       THEN RemoveListener(curListeners, h.cb) ELSE curListeners
    /\ prefListeners' = IF h.store = "preferred"
                        THEN RemoveListener(prefListeners, h.cb)
                        ELSE prefListeners
    /\ sysListeners' =
           IF h.store = "system"
           THEN RemoveEventListener(sysListeners,
                    MatchMedia("unsubscriber", h.reg), h.reg)
           ELSE sysListeners
    /\ lastOp' = SubOp("Unsubscribe", h)
    /\ UNCHANGED restVars
    /\ UNCHANGED <<loaded, localPreferred, pref, evq, matchesDark, mqlPending,
                   session, cur, dataBsTheme, metaContent, nextReg, handles,
                   lastExplicit>>

\* A script of the page assigns currentSchemeStorage.darkThemeName, a plain
\* public field.  The variant also applies the theme to the document root.
SetDarkThemeNameApplied(name) ==
    /\ loaded[Main]
    /\ darkThemeName' = name
    /\ dataBsTheme' = (IF cur = "dark" THEN name ELSE lightThemeName)
    /\ lastOp' = Op("SetDarkThemeName", Main, name, FALSE, <<>>, <<>>, <<>>,
                    <<>>, <<>>)
    /\ UNCHANGED <<loaded, localPreferred, pref, evq, matchesDark, mqlPending,
                   session, cur, metaContent, lastExplicit, lightThemeName>>
    /\ UNCHANGED subVars
    /\ UNCHANGED freeVars
    /\ UNCHANGED <<ctorData, events>>

SetDarkThemeName(name) ==
    /\ loaded[Main]
    /\ darkThemeName' = name
    /\ lastOp' = Op("SetDarkThemeName", Main, name, FALSE, <<>>, <<>>, <<>>,
                    <<>>, <<>>)
    /\ UNCHANGED <<loaded, localPreferred, pref, evq, matchesDark, mqlPending,
                   session, cur, dataBsTheme, metaContent, lastExplicit,
                   lightThemeName>>
    /\ UNCHANGED subVars
    /\ UNCHANGED freeVars
    /\ UNCHANGED <<ctorData, events>>

\* A script of the page assigns currentSchemeStorage.lightThemeName.
SetLightThemeName(name) ==
    /\ loaded[Main]
    /\ lightThemeName' = name
    /\ lastOp' = Op("SetLightThemeName", Main, name, FALSE, <<>>, <<>>, <<>>,
                    <<>>, <<>>)
    /\ UNCHANGED <<loaded, localPreferred, pref, evq, matchesDark, mqlPending,
                   session, cur, dataBsTheme, metaContent, lastExplicit,
                   darkThemeName>>
    /\ UNCHANGED subVars
    /\ UNCHANGED freeVars
    /\ UNCHANGED <<ctorData, events>>

\* A script of the page calls currentSchemeStorage.getDefaultTheme(); ret is
\* what the call returns.
GetDefaultTheme ==
    /\ loaded[Main]
    /\ lastOp' = [Op("getDefaultTheme", Main, cur, FALSE, <<>>, <<>>, <<>>,
                     <<>>, <<>>) EXCEPT !.ret = getDefaultTheme(cur)]
    /\ UNCHANGED <<loaded, localPreferred, pref, evq, matchesDark, mqlPending,
                   session, cur, dataBsTheme, metaContent, lastExplicit>>
    /\ UNCHANGED subVars
    /\ UNCHANGED restVars

\* Another script of the origin, or an earlier visit, leaves text under
\* the key "theme-settings" (Null: removes it).
ForeignSettingsWrite(text) ==
    /\ themeSettings' = text
    /\ lastOp' = Op("ForeignSettingsWrite", Null, text, FALSE, <<>>, <<>>,
                    <<>>, <<>>, <<>>)
    /\ UNCHANGED <<settings, currentColorScheme, styleSheetUsed,
                   adoptedStyleSheets, themeMetas, systemHandlers>>
    /\ UNCHANGED <<loaded, localPreferred, pref, evq, matchesDark, mqlPending,
                   session, cur, dataBsTheme, metaContent, lastExplicit>>
    /\ UNCHANGED subVars
    /\ UNCHANGED themeVars
    /\ UNCHANGED <<ctorData, events>>

\* part_002: setSettings(newSettings).
SetSettings(newSettings) ==
    /\ settings' = newSettings
    /\ themeSettings' = JsonStringify(newSettings)
    /\ lastOp' = Op("setSettings", Main, JsonStringify(newSettings), FALSE,
                    <<>>, <<>>, <<>>, <<>>, <<>>)
    /\ UNCHANGED <<currentColorScheme, styleSheetUsed, adoptedStyleSheets,
                   themeMetas, systemHandlers>>
    /\ UNCHANGED <<loaded, localPreferred, pref, evq, matchesDark, mqlPending,
                   session, cur, dataBsTheme, metaContent, lastExplicit>>
    /\ UNCHANGED subVars
    /\ UNCHANGED themeVars
    /\ UNCHANGED <<ctorData, events>>

\* part_002: loadSettings().  It returns the variable settings; the step
\* records the key's content it read.
LoadSettings ==
    /\ settings' = LoadedSettings(themeSettings, settings)
    /\ themeSettings' = StoredAfterLoad(themeSettings)
    /\ lastOp' = Op("loadSettings", Main, themeSettings, FALSE, <<>>, <<>>,
                    <<>>, <<>>, <<>>)
    /\ UNCHANGED <<currentColorScheme, styleSheetUsed, adoptedStyleSheets,
                   themeMetas, systemHandlers>>
    /\ UNCHANGED <<loaded, localPreferred, pref, evq, matchesDark, mqlPending,
                   session, cur, dataBsTheme, metaContent, lastExplicit>>
    /\ UNCHANGED subVars
    /\ UNCHANGED themeVars
    /\ UNCHANGED <<ctorData, events>>

\* part_002: adaptInputsToUserPreferredColorScheme().
AdaptInputs ==
    /\ adoptedStyleSheets' = Adapted(styleSheetUsed, adoptedStyleSheets)
    /\ styleSheetUsed' = TRUE
    /\ lastOp' = Op("adaptInputsToUserPreferredColorScheme", Main, Null,
                    FALSE, <<>>, <<>>, <<>>, <<>>, <<>>)
    /\ UNCHANGED <<themeSettings, settings, currentColorScheme, themeMetas,
                   systemHandlers>>
    /\ UNCHANGED <<loaded, localPreferred, pref, evq, matchesDark, mqlPending,
                   session, cur, dataBsTheme, metaContent, lastExplicit>>
    /\ UNCHANGED subVars
    /\ UNCHANGED themeVars
    /\ UNCHANGED <<ctorData, events>>

\* part_002: initThemeModule().  The two meta elements, the style sheet
\* and loadSettings come first; reading settings.colorScheme throws when
\* settings is null, and what was done before stays done.
InitThemeModule ==
    LET data == themeSettings
        loadedSettings == LoadedSettings(data, settings)
        fatal == loadedSettings.kind = "null"
        colorScheme == loadedSettings.colorScheme
        resolved == FreeInitScheme(loadedSettings, getPreferredColorScheme)
        \* applyColorTheme(settings.colorScheme) replaces "auto" by
        \* settings.colorScheme, which is "auto"
        applied == IF colorScheme = "auto" THEN loadedSettings.colorScheme
                                           ELSE colorScheme
    IN  /\ themeMetas < 2 * MaxInits
        /\ themeMetas' = themeMetas + 2
        /\ adoptedStyleSheets' = Adapted(styleSheetUsed, adoptedStyleSheets)
        /\ styleSheetUsed' = TRUE
        /\ settings' = loadedSettings
        /\ themeSettings' = StoredAfterLoad(data)
        /\ IF fatal
           THEN UNCHANGED <<dataBsTheme, currentColorScheme, systemHandlers>>
           ELSE /\ dataBsTheme' = ToAttribute(applied)
                /\ currentColorScheme' = resolved
                /\ systemHandlers' = systemHandlers + 1
        /\ lastOp' = Op("initThemeModule", Main, data, fatal, <<>>, <<>>,
                        <<>>, <<>>, <<>>)
        /\ UNCHANGED <<loaded, localPreferred, pref, evq, matchesDark,
                       mqlPending, session, cur, metaContent, lastExplicit>>
        /\ UNCHANGED subVars
        /\ UNCHANGED themeVars
        /\ UNCHANGED <<ctorData, events>>

\* part_002: setCurrentColorScheme(colorScheme), called by the page's
\* scripts.  applyColorTheme is handed "dark" or "light" here and sets the
\* root attribute to it.
FreeSetCurrent(colorScheme) ==
    LET theme == FreeResolve(colorScheme, getPreferredColorScheme)
    IN  /\ IF FreeSetterThrows(colorScheme)
           THEN /\ lastOp' = Op("setCurrentColorScheme", Main, colorScheme,
                                TRUE, <<>>, <<>>, <<>>, <<>>, <<>>)
                /\ UNCHANGED <<dataBsTheme, currentColorScheme>>
           ELSE IF theme = currentColorScheme
           THEN /\ lastOp' = Op("setCurrentColorScheme", Main, colorScheme,
                                FALSE, <<>>, <<>>, <<>>, <<>>, <<>>)
                /\ UNCHANGED <<dataBsTheme, currentColorScheme>>
           ELSE /\ dataBsTheme' = ToAttribute(theme)
                /\ currentColorScheme' = theme
                /\ lastOp' = Op("setCurrentColorScheme", Main, colorScheme,
                                FALSE, <<>>, <<>>, <<theme>>, <<>>, <<>>)
        /\ UNCHANGED <<themeSettings, settings, styleSheetUsed,
                       adoptedStyleSheets, themeMetas, systemHandlers>>
        /\ UNCHANGED <<loaded, localPreferred, pref, evq, matchesDark,
                       mqlPending, session, cur, metaContent, lastExplicit>>
        /\ UNCHANGED subVars
        /\ UNCHANGED <<themeVars, ctorData, events>>

\* The operating system's preference flips on a page of the free-function
\* API; a change event is queued when initThemeModule has registered a
\* handler.
FreeSystemChange ==
    /\ matchesDark' = ~matchesDark
    /\ mqlPending' = (systemHandlers > 0)
    /\ lastOp' = Op("SystemChange", Null, Null, FALSE, <<>>, <<>>, <<>>, <<>>,
                    <<>>)
    /\ UNCHANGED <<loaded, localPreferred, pref, evq, session, cur, dataBsTheme,
                   metaContent, lastExplicit>>
    /\ UNCHANGED subVars
    /\ UNCHANGED restVars

\* The change event reaches the handlers initThemeModule registered, one
\* per call.  Each reads settings.colorScheme, which throws when settings
\* is null, and calls setCurrentColorScheme with the system's scheme when
\* it is "auto"; the calls after the first find the scheme set.
FreeSystemEvent ==
    LET colorScheme == getPreferredColorScheme
        fatal == settings.kind = "null"
        forwards == ~fatal /\ FreeHandlerForwards(settings)
        theme == FreeResolve(colorScheme, getPreferredColorScheme)
    IN  /\ mqlPending
        /\ systemHandlers > 0
        /\ mqlPending' = FALSE
        /\ IF forwards /\ theme # currentColorScheme
           THEN /\ dataBsTheme' = ToAttribute(theme)
                /\ currentColorScheme' = theme
                /\ lastOp' = Op("FreeSystemEvent", Main, colorScheme, FALSE,
                                <<>>, <<>>, <<theme>>, <<>>, <<>>)
           ELSE /\ lastOp' = Op("FreeSystemEvent", Main, colorScheme, fatal,
                                <<>>, <<>>, <<>>, <<>>, <<>>)
                /\ UNCHANGED <<dataBsTheme, currentColorScheme>>
        /\ UNCHANGED <<themeSettings, settings, styleSheetUsed,
                       adoptedStyleSheets, themeMetas, systemHandlers>>
        /\ UNCHANGED <<loaded, localPreferred, pref, evq, matchesDark, session,
                       cur, metaContent, lastExplicit>>
        /\ UNCHANGED subVars
        /\ UNCHANGED <<themeVars, ctorData, events>>

--------------------------------------------------------------------------
(* A free-standing EventEmitter and its events "#has-listeners" and       *)
(* "#no-listeners".  A listener is named by its callback.                 *)

\* on() and removeListener() test the event name with
\* /^(#has-listeners|#no-listeners)$/ before they emit.
IsSpecialEvent(event) == event \in SpecialEvents

\* emit(signal, event) on the lists given: the record of the emission and
\* the invocations of the listeners of signal, each inside try/catch.
Signal(lists, signal, event) ==
    [signals |-> <<[signal |-> signal, event |-> event]>>,
     calls |-> IF lists[signal] = <<>> THEN <<>>
               ELSE [i \in 1..Len(lists[signal]) |->
                        Call(signal, [cb |-> lists[signal][i], reg |-> 0],
                             event, Null, Null)]]

NoSignal == [signals |-> <<>>, calls |-> <<>>]

EmitterOp(op, event, emitted) ==
    [Op(op, Main, event, FALSE, <<>>, <<>>, <<>>, <<>>, emitted.calls)
        EXCEPT !.signals = emitted.signals]

EmitterFrame ==
    /\ UNCHANGED <<loaded, localPreferred, pref, evq, matchesDark, mqlPending,
                   session, cur, dataBsTheme, metaContent, lastExplicit>>
    /\ UNCHANGED subVars
    /\ UNCHANGED <<themeVars, freeVars, ctorData>>

\* emitter.on(event, cb).
EmitterOn(event, cb) ==
    LET lists == [events EXCEPT ![event] = Append(@, cb)]
    IN  /\ Len(events[event]) < MaxListeners
        /\ events' = lists
        /\ lastOp' = EmitterOp("on", event,
               IF ~IsSpecialEvent(event) /\ Len(lists[event]) = 1
               THEN Signal(lists, "#has-listeners", event) ELSE NoSignal)
        /\ EmitterFrame

\* emitter.removeListener(event, cb), also what the unsubscribe function
\* returned by on(event, cb) does at each call.
EmitterRemoveListener(event, cb) ==
    LET idx == CHOOSE i \in 0..Len(events[event]) :
                   /\ i > 0 => events[event][i] = cb
                   /\ \A j \in 1..Len(events[event]) :
                          events[event][j] = cb => (i > 0 /\ i <= j)
        lists == IF idx > 0
                 THEN [events EXCEPT ![event] =
                          SubSeq(@, 1, idx - 1) \o SubSeq(@, idx + 1, Len(@))]
                 ELSE events
    IN  /\ events' = lists
        /\ lastOp' = EmitterOp("removeListener", event,
               IF idx > 0 /\ ~IsSpecialEvent(event) /\ Len(lists[event]) = 0
               THEN Signal(lists, "#no-listeners", event) ELSE NoSignal)
        /\ EmitterFrame

\* emitter.clearEventListeners(event): no test of the event name here.
EmitterClearEventListeners(event) ==
    LET listenersCount == Len(events[event])
        lists == IF listenersCount > 0 THEN [events EXCEPT ![event] = <<>>]
                                       ELSE events
    IN  /\ events' = lists
        /\ lastOp' = EmitterOp("clearEventListeners", event,
               IF listenersCount > 0
               THEN Signal(lists, "#no-listeners", event) ELSE NoSignal)
        /\ EmitterFrame

--------------------------------------------------------------------------
(* The two implementations side by side: one page runs index.js, another  *)
(* page, of another origin, runs part_002.  Each step below is the same   *)
(* operation carried out on both.  The document variables are those of    *)
(* the index.js page; of the part_002 page only the module's variables,   *)
(* its key and what it adds to its document are followed.                 *)

\* Before the pages load, the same preference is persisted for both: under
\* "preferredColorScheme" and as the colorScheme of "theme-settings".
PairStored(scheme) ==
    /\ ~loaded[Main]
    /\ localPreferred' = scheme
    /\ themeSettings' = JsonStringify(Obj(scheme))
    /\ lastOp' = Op("PairStored", Null, scheme, FALSE, <<>>, <<>>, <<>>, <<>>,
                    <<>>)
    /\ UNCHANGED <<loaded, pref, evq, matchesDark, mqlPending, session, cur,
                   dataBsTheme, metaContent, lastExplicit>>
    /\ UNCHANGED <<settings, currentColorScheme, styleSheetUsed,
                   adoptedStyleSheets, themeMetas, systemHandlers>>
    /\ UNCHANGED subVars
    /\ UNCHANGED <<themeVars, ctorData, events>>

\* Both pages load: index.js is evaluated on one, initThemeModule() is
\* called on the other.
PairLoad ==
    LET data == localPreferred
        p == PreferredLoaded(data)
        c == CurrentLoaded(session, p, getSystemPreferredColorScheme)
        loadedSettings == LoadedSettings(themeSettings, settings)
    IN  /\ ~loaded[Main]
        /\ loaded' = [loaded EXCEPT ![Main] = TRUE]
        /\ pref' = [pref EXCEPT ![Main] = p]
        /\ localPreferred' = p
        /\ mqlPending' = FALSE
        /\ cur' = c
        /\ metaContent' = MetaFor(c)
        /\ dataBsTheme' = getDefaultTheme(c)
        /\ curListeners' = [i \in 1..Len(BootListeners) |->
                               [cb |-> BootListeners[i], reg |-> i]]
        /\ nextReg' = Len(BootListeners) + 1
        /\ settings' = loadedSettings
        /\ themeSettings' = StoredAfterLoad(themeSettings)
        /\ currentColorScheme' =
               FreeInitScheme(loadedSettings, getPreferredColorScheme)
        /\ themeMetas' = themeMetas + 2
        /\ adoptedStyleSheets' = Adapted(styleSheetUsed, adoptedStyleSheets)
        /\ styleSheetUsed' = TRUE
        /\ systemHandlers' = systemHandlers + 1
        /\ lastOp' = Op("PairLoad", Main, data, FALSE, <<>>, <<p>>, <<>>, <<>>,
                        <<>>)
        /\ UNCHANGED <<evq, matchesDark, session, lastExplicit, prefListeners,
                       sysListeners, handles>>
        /\ UNCHANGED <<themeVars, ctorData, events>>

\* The preference changes: preferredSchemeStorage.scheme = scheme on one
\* page, setSettings({ colorScheme: scheme }) on the other.
PairPreferredSet(scheme) ==
    /\ loaded[Main]
    /\ pref' = [pref EXCEPT ![Main] = scheme]
    /\ localPreferred' = IF scheme = pref[Main] THEN localPreferred
                                               ELSE StorageString(scheme)
    /\ settings' = Obj(scheme)
    /\ themeSettings' = JsonStringify(Obj(scheme))
    /\ lastOp' = Op("PairPreferredSet", Main, scheme, FALSE, <<>>,
                    IF scheme = pref[Main] THEN <<>>
                                          ELSE <<StorageString(scheme)>>,
                    <<>>, IF scheme = pref[Main] THEN <<>> ELSE <<scheme>>,
                    <<>>)
    /\ UNCHANGED <<loaded, evq, matchesDark, mqlPending, session, cur,
                   dataBsTheme, metaContent, lastExplicit>>
    /\ UNCHANGED <<currentColorScheme, styleSheetUsed, adoptedStyleSheets,
                   themeMetas, systemHandlers>>
    /\ UNCHANGED subVars
    /\ UNCHANGED <<themeVars, ctorData, events>>

\* The part of a pair step that is setCurrentColorScheme(colorScheme) on
\* the part_002 page.
PairFreeSet(forwards, colorScheme) ==
    LET theme == FreeResolve(colorScheme, getPreferredColorScheme)
    IN  currentColorScheme' =
            IF forwards /\ theme # currentColorScheme
            THEN theme ELSE currentColorScheme

\* The current scheme is set: currentSchemeStorage.scheme = colorScheme on
\* one page, setCurrentColorScheme(colorScheme) on the other.
PairCurrentSet(colorScheme) ==
    /\ loaded[Main]
    /\ SetCurrentScheme("PairCurrentSet", colorScheme, <<>>)
    /\ PairFreeSet(TRUE, colorScheme)
    /\ lastExplicit' = IF lastOp'.threw THEN lastExplicit ELSE cur'
    /\ UNCHANGED <<loaded, localPreferred, pref, evq, matchesDark, mqlPending>>
    /\ UNCHANGED <<themeSettings, settings, styleSheetUsed,
                   adoptedStyleSheets, themeMetas, systemHandlers>>
    /\ UNCHANGED subVars
    /\ UNCHANGED <<themeVars, ctorData, events>>

\* The system's preference flips for both pages, and later the change
\* event reaches the handler of each.
PairSystemEvent ==
    LET colorScheme == getSystemPreferredColorScheme
    IN  /\ mqlPending
        /\ mqlPending' = FALSE
        /\ IF SystemHandlerForwards(pref[Main])
           THEN SetCurrentScheme("PairSystemEvent", colorScheme, <<>>)
           ELSE /\ lastOp' = Op("PairSystemEvent", Main, colorScheme, FALSE,
                                <<>>, <<>>, <<>>, <<>>, <<>>)
                /\ UNCHANGED <<session, cur, metaContent, dataBsTheme>>
        /\ PairFreeSet(FreeHandlerForwards(settings), getPreferredColorScheme)
        /\ UNCHANGED <<loaded, localPreferred, pref, evq, matchesDark,
                       lastExplicit>>
        /\ UNCHANGED <<themeSettings, settings, styleSheetUsed,
                       adoptedStyleSheets, themeMetas, systemHandlers>>
        /\ UNCHANGED subVars
        /\ UNCHANGED <<themeVars, ctorData, events>>

\* One page running the module, and whatever else writes the shared key.
Next ==
    \/ Bootstrap
    \/ \E scheme \in SetterInputs : PreferredSet(Main, scheme)
    \/ \E colorScheme \in SetterInputs : CurrentSet(colorScheme)
    \/ SystemChange
    \/ SystemEvent
    \/ StorageEvent(Main)
    \/ \E v \in ForeignValues : ForeignWrite(v)

Spec == Init /\ [][Next]_vars

\* Two contexts, each with a PreferredSchemeStorage, writing the shared key
\* with valid schemes through their setters only.
NextTabs ==
    \/ ~loaded[Main] /\ Bootstrap
    \/ ~loaded[Other] /\ ConstructPreferred
    \/ \E t \in Tabs, scheme \in ThreeState : PreferredSet(t, scheme)
    \/ \E t \in Tabs : StorageEvent(t)

SpecTabs == Init /\ [][NextTabs]_vars

\* A first visit: both keys are absent, the system prefers light.
InitFresh ==
    /\ Init
    /\ localPreferred = Null
    /\ session = Null
    /\ ~matchesDark

\* One page whose scripts subscribe to the preferred and the current store
\* and unsubscribe, while the schemes change through the setters and
\* through the shared key.
NextSubs ==
    \/ ~loaded[Main] /\ Bootstrap
    \/ \E store \in EmitterStores, cb \in Callbacks : Subscribe(store, cb)
    \/ \E h \in handles : Unsubscribe(h)
    \/ \E scheme \in ThreeState : PreferredSet(Main, scheme)
    \/ \E colorScheme \in ThreeState : CurrentSet(colorScheme)
    \/ StorageEvent(Main)
    \/ \E v \in ExternalValues : ForeignWrite(v)

SpecSubs == InitFresh /\ [][NextSubs]_vars

\* One page whose scripts subscribe to the system store and unsubscribe,
\* while the system's preference changes.
NextSys ==
    \/ ~loaded[Main] /\ Bootstrap
    \/ \E cb \in Callbacks : Subscribe("system", cb)
    \/ \E h \in handles : Unsubscribe(h)
    \/ \E scheme \in ThreeState : PreferredSet(Main, scheme)
    \/ SystemChange
    \/ SystemEvent

SpecSys == InitFresh /\ [][NextSys]_vars

\* One page whose scripts rename the themes and ask for the default theme
\* while the schemes change through the setters and the system.
NextTheme ==
    \/ ~loaded[Main] /\ Bootstrap
    \/ \E name \in ThemeNames : SetDarkThemeName(name)
    \/ \E name \in ThemeNames : SetLightThemeName(name)
    \/ GetDefaultTheme
    \/ \E scheme \in ThreeState : PreferredSet(Main, scheme)
    \/ \E colorScheme \in ThreeState : CurrentSet(colorScheme)
    \/ SystemChange
    \/ SystemEvent

SpecTheme == InitFresh /\ [][NextTheme]_vars

\* One browsing context on its own: nothing else writes the storages and
\* no storage event arrives.
NextSolo ==
    \/ Bootstrap
    \/ \E scheme \in SoloInputs : PreferredSet(Main, scheme)
    \/ \E colorScheme \in SetterInputs : CurrentSet(colorScheme)
    \/ SystemChange
    \/ SystemEvent

SpecSolo == Init /\ [][NextSolo]_vars

\* The other context constructs its store while this one writes the key
\* through its setter.
NextRace ==
    \/ ~loaded[Main] /\ Bootstrap
    \/ ConstructRead
    \/ ConstructWrite
    \/ \E t \in Tabs, scheme \in ThreeState : PreferredSet(t, scheme)
    \/ \E t \in Tabs : StorageEvent(t)

SpecRace == Init /\ [][NextRace]_vars

\* One page whose subscribers of the current store subscribe and
\* unsubscribe from inside a notification.
NextSnapshot ==
    \/ ~loaded[Main] /\ Bootstrap
    \/ \E cb \in ActingCallbacks : Subscribe("current", cb)
    \/ \E colorScheme \in ThreeState : CurrentSetActing(colorScheme)

SpecSnapshot == InitFresh /\ [][NextSnapshot]_vars

\* One page with a subscriber of the preferred store, while other
\* contexts write the preferred key and other keys and clear the store.
NextKeys ==
    \/ ~loaded[Main] /\ Bootstrap
    \/ Subscribe("preferred", "f")
    \/ \E scheme \in ThreeState : PreferredSet(Main, scheme)
    \/ \E v \in ForeignValues : ForeignWrite(v)
    \/ \E text \in OtherKeyValues : ForeignKeyWrite(text)
    \/ ForeignClear
    \/ StorageEvent(Main)

SpecKeys == InitFresh /\ [][NextKeys]_vars

\* A free-standing emitter used through on, removeListener, the
\* unsubscribe functions and clearEventListeners.
NextEmitter ==
    \/ \E event \in EmitterEvents, cb \in Callbacks : EmitterOn(event, cb)
    \/ \E event \in EmitterEvents, cb \in Callbacks :
           EmitterRemoveListener(event, cb)
    \/ \E event \in EmitterEvents : EmitterClearEventListeners(event)

SpecEmitter == InitFresh /\ [][NextEmitter]_vars

\* One page where a subscriber of the current store assigns the store's
\* scheme while it is being notified.
NextReentry ==
    \/ ~loaded[Main] /\ Bootstrap
    \/ \E cb \in ReentryCallbacks : Subscribe("current", cb)
    \/ \E scheme \in ThreeState : PreferredSet(Main, scheme)
    \/ \E colorScheme \in ThreeState : CurrentSetReentrant(colorScheme)

SpecReentry == InitFresh /\ [][NextReentry]_vars

\* A page that uses the free-function API of part_002; storage of the
\* class-based stores is not involved.
InitFree ==
    /\ Init
    /\ localPreferred = Null
    /\ session = Null

NextFree ==
    \/ \E text \in SettingsStored : ForeignSettingsWrite(text)
    \/ \E newSettings \in NewSettings : SetSettings(newSettings)
    \/ LoadSettings
    \/ AdaptInputs
    \/ InitThemeModule
    \/ \E colorScheme \in SetterInputs : FreeSetCurrent(colorScheme)
    \/ FreeSystemChange
    \/ FreeSystemEvent

SpecFree == InitFree /\ [][NextFree]_vars

\* The class-based stores and the free-function API driven by the same
\* operations, from an empty session cache.
NextPair ==
    \/ \E scheme \in ThreeState : PairStored(scheme)
    \/ PairLoad
    \/ \E scheme \in ThreeState : PairPreferredSet(scheme)
    \/ \E colorScheme \in ThreeState : PairCurrentSet(colorScheme)
    \/ SystemChange
    \/ PairSystemEvent

SpecPair == InitFree /\ [][NextPair]_vars

--------------------------------------------------------------------------
(* Claims *)

\* C1: once the page has loaded, CurrentColorSchemeStorage.scheme is "dark"
\* or "light" in every reachable state, whatever was handed to the setters
\* and whatever system changes and storage events occurred.
C1_CurrentAlwaysConcrete == loaded[Main] => cur \in Concrete

\* C2: the constructor's cascade.  A session-scoped value "dark" or "light"
\* is adopted whatever the preferred and system schemes are; otherwise a
\* preferred scheme "dark" or "light" is adopted; otherwise the preferred
\* scheme is "auto" and the system scheme is adopted.
C2_ConstructionCascade ==
    [][lastOp'.op = "Bootstrap" =>
          /\ session \in Concrete => cur' = session
          /\ (session \notin Concrete /\ pref'[Main] \in Concrete)
                => cur' = pref'[Main]
          /\ (session \notin Concrete /\ pref'[Main] \notin Concrete)
                => /\ pref'[Main] = "auto"
                   /\ cur' = (IF matchesDark THEN "dark" ELSE "light")]_vars

\* C2 witness: a load where the session-scoped value wins over a different
\* preferred scheme and a different system scheme.
C2_Witness ==
    /\ lastOp.op = "Bootstrap"
    /\ lastOp.arg = "dark"
    /\ pref[Main] = "light"
    /\ ~matchesDark
    /\ cur = "dark"

\* C3: when the system-change event is handled with the preferred scheme
\* "auto", the current scheme becomes the system scheme and, if it changed,
\* the subscribers receive the new scheme; with the preferred scheme "dark"
\* or "light" the current scheme and the session-scoped key stay as they
\* were and nothing is notified.
C3_SystemChangePropagation ==
    [][lastOp'.op = "SystemEvent" =>
          LET sys == IF matchesDark THEN "dark" ELSE "light"
          IN  /\ pref[Main] = "auto" =>
                    /\ cur' = sys
                    /\ cur # sys => lastOp'.curEmit = <<sys>>
              /\ pref[Main] \in Concrete =>
                    /\ cur' = cur
                    /\ session' = session
                    /\ lastOp'.sessionWrites = <<>>
                    /\ lastOp'.curEmit = <<>>]_vars

\* C3 witness: a system change to dark has been propagated under "auto".
C3_Witness ==
    /\ lastOp.op = "SystemEvent"
    /\ pref[Main] = "auto"
    /\ matchesDark
    /\ lastOp.curEmit = <<"dark">>
    /\ cur = "dark"

\* C4: assigning a value other than "dark", "light", "auto" to the current
\* scheme throws and changes nothing: cache and session-scoped key keep
\* their values and nothing is notified.
C4_InvalidCurrentSetRejected ==
    [][(lastOp'.op = "CurrentSet" /\ lastOp'.arg \notin ThreeState) =>
          /\ lastOp'.threw
          /\ cur' = cur
          /\ session' = session
          /\ lastOp'.sessionWrites = <<>>
          /\ lastOp'.curEmit = <<>>
          /\ dataBsTheme' = dataBsTheme
          /\ metaContent' = metaContent]_vars

\* C4 witness: "blue" was assigned to the current scheme and rejected.
C4_Witness ==
    /\ lastOp.op = "CurrentSet"
    /\ lastOp.arg = "blue"
    /\ lastOp.threw

\* C5: assigning a value other than "dark", "light", "auto" to the preferred
\* scheme throws and changes nothing: the in-memory value and the persisted
\* key keep their values and nothing is notified.
C5_InvalidPreferredSetRejected ==
    [][(lastOp'.op = "PreferredSet" /\ lastOp'.arg \notin ThreeState) =>
          /\ lastOp'.threw
          /\ pref' = pref
          /\ localPreferred' = localPreferred
          /\ lastOp'.localWrites = <<>>
          /\ lastOp'.prefEmit = <<>>]_vars

\* C6: two contexts write the preferred key through their setters; once
\* every storage event has been delivered, each context's in-memory
\* preferred scheme is the value the persisted key holds.
C6_LastWriteWins ==
    (\A t \in Tabs : loaded[t] /\ evq[t] = <<>>)
        => \A t \in Tabs : pref[t] = localPreferred

\* C7: a storage event for the preferred key whose new value is not a valid
\* scheme (null included) leaves the in-memory scheme "auto", and every
\* value handed to the subscribers is "auto".
C7_InvalidExternalCoerced ==
    [][(lastOp'.op = "StorageEvent" /\ lastOp'.arg \notin ThreeState) =>
          /\ pref'[lastOp'.tab] = "auto"
          /\ \A i \in 1..Len(lastOp'.prefEmit) :
                lastOp'.prefEmit[i] = "auto"]_vars

\* C8: a storage event for the preferred key whose new value is a valid
\* scheme other than the one in memory sets the in-memory scheme to it and
\* notifies the subscribers with it, and the persisted key is not written.
C8_ExternalValidChange ==
    [][(/\ lastOp'.op = "StorageEvent"
        /\ lastOp'.arg \in ThreeState
        /\ lastOp'.arg # pref[lastOp'.tab]) =>
          /\ pref'[lastOp'.tab] = lastOp'.arg
          /\ lastOp'.prefEmit = <<lastOp'.arg>>
          /\ lastOp'.localWrites = <<>>
          /\ localPreferred' = localPreferred]_vars

\* C8 witness: the page took "dark" from a storage event and notified it.
C8_Witness ==
    /\ lastOp.op = "StorageEvent"
    /\ lastOp.tab = Main
    /\ lastOp.arg = "dark"
    /\ lastOp.prefEmit = <<"dark">>
    /\ pref[Main] = "dark"

C10_AutoResolution ==
    [][(lastOp'.op = "CurrentSet" /\ lastOp'.arg = "auto") =>
          /\ ~lastOp'.threw
          /\ pref[Main] \in Concrete => cur' = pref[Main]
          /\ pref[Main] = "auto" =>
                cur' = (IF matchesDark THEN "dark" ELSE "light")]_vars

\* C10 witness: "auto" resolved to the preferred "light" on a dark system,
\* replacing a cached "dark".
C10_Witness ==
    /\ lastOp.op = "CurrentSet"
    /\ lastOp.arg = "auto"
    /\ pref[Main] = "light"
    /\ matchesDark
    /\ lastOp.curEmit = <<"light">>
    /\ cur = "light"

\* C11: assigning to the current scheme a value whose resolved scheme is the
\* cached one ("dark" or "light" itself, or "auto" resolving to it through
\* the preferred and then the system scheme) does nothing: the session-scoped
\* key is not written, nothing is emitted, no subscriber is invoked, and the
\* cache and the document stay as they were.
C11_ResolvedEqualNoOp ==
    [][(/\ lastOp'.op = "CurrentSet"
        /\ \/ lastOp'.arg \in Concrete /\ lastOp'.arg = cur
           \/ /\ lastOp'.arg = "auto"
              /\ pref[Main] \in Concrete
              /\ pref[Main] = cur
           \/ /\ lastOp'.arg = "auto"
              /\ pref[Main] = "auto"
              /\ cur = (IF matchesDark THEN "dark" ELSE "light")) =>
          /\ ~lastOp'.threw
          /\ lastOp'.sessionWrites = <<>>
          /\ lastOp'.curEmit = <<>>
          /\ lastOp'.calls = <<>>
          /\ session' = session
          /\ cur' = cur
          /\ dataBsTheme' = dataBsTheme
          /\ metaContent' = metaContent]_vars

\* C11 witness: "auto" was assigned while it resolved, through the system
\* scheme, to the cached "dark"; the session-scoped key is still absent.
C11_Witness ==
    /\ lastOp.op = "CurrentSet"
    /\ lastOp.arg = "auto"
    /\ pref[Main] = "auto"
    /\ matchesDark
    /\ cur = "dark"
    /\ session = Null
    /\ lastOp.curEmit = <<>>

\* C12: assigning to the current scheme a valid value whose resolved scheme
\* differs from the cached one writes the resolved scheme to the
\* session-scoped key, makes it the cached scheme, and invokes every
\* registered subscriber once, in one pass over the list, with the resolved
\* scheme; each subscriber already finds the new scheme in the store and
\* under the key.
C12_ChangeWritesThenNotifies ==
    [][(/\ lastOp'.op = "CurrentSet"
        /\ \/ lastOp'.arg \in Concrete
           \/ lastOp'.arg = "auto" /\ pref[Main] \in ThreeState
        /\ LET r == IF lastOp'.arg \in Concrete THEN lastOp'.arg
                    ELSE IF pref[Main] \in Concrete THEN pref[Main]
                    ELSE IF matchesDark THEN "dark" ELSE "light"
           IN  r # cur) =>
          LET r == IF lastOp'.arg \in Concrete THEN lastOp'.arg
                   ELSE IF pref[Main] \in Concrete THEN pref[Main]
                   ELSE IF matchesDark THEN "dark" ELSE "light"
          IN  /\ ~lastOp'.threw
              /\ lastOp'.sessionWrites = <<r>>
              /\ session' = r
              /\ cur' = r
              /\ Len(lastOp'.calls) = Len(curListeners)
              /\ \A i \in 1..Len(curListeners) :
                    /\ lastOp'.calls[i].store = "current"
                    /\ lastOp'.calls[i].cb = curListeners[i].cb
                    /\ lastOp'.calls[i].reg = curListeners[i].reg
                    /\ lastOp'.calls[i].arg = r
                    /\ lastOp'.calls[i].scheme = r
                    /\ lastOp'.calls[i].stored = r]_vars

\* C12 witness: "auto" was assigned, resolved to "dark" and replaced a
\* cached "light"; a subscriber of the page's scripts was invoked with it.
C12_Witness ==
    /\ lastOp.op = "CurrentSet"
    /\ lastOp.arg = "auto"
    /\ cur = "dark"
    /\ session = "dark"
    /\ lastOp.sessionWrites = <<"dark">>
    /\ \E i \in 1..Len(lastOp.calls) :
          /\ lastOp.calls[i].cb = "f"
          /\ lastOp.calls[i].arg = "dark"
          /\ lastOp.calls[i].stored = "dark"

\* C13: the constructor of PreferredSchemeStorage adopts a persisted "dark",
\* "light" or "auto" and leaves the key holding it; for every other content
\* of the key (absent, empty, any other string) the in-memory scheme is
\* "auto" and "auto" is written to the key.
C13_ConstructorSelfHeals ==
    [][lastOp'.op \in {"Bootstrap", "ConstructPreferred"} =>
          /\ localPreferred \in ThreeState =>
                /\ pref'[lastOp'.tab] = localPreferred
                /\ localPreferred' = localPreferred
          /\ localPreferred \notin ThreeState =>
                /\ pref'[lastOp'.tab] = "auto"
                /\ localPreferred' = "auto"
                /\ lastOp'.localWrites = <<"auto">>]_vars

\* C13 witness: a store was constructed over the content "garbage".
C13_Witness ==
    /\ lastOp.op = "ConstructPreferred"
    /\ lastOp.arg = "garbage"
    /\ pref[Other] = "auto"
    /\ localPreferred = "auto"
    /\ lastOp.localWrites = <<"auto">>

\* C14: assigning to the preferred scheme the value the store holds does
\* nothing, whatever that value and whatever the key holds: no write, no
\* storage event, nothing emitted, no subscriber invoked.
C14_SamePreferredNoOp ==
    [][(lastOp'.op = "PreferredSet" /\ lastOp'.arg = pref[lastOp'.tab]) =>
          /\ ~lastOp'.threw
          /\ lastOp'.localWrites = <<>>
          /\ lastOp'.prefEmit = <<>>
          /\ lastOp'.calls = <<>>
          /\ pref' = pref
          /\ localPreferred' = localPreferred
          /\ evq' = evq]_vars

\* C14 witness: "dark" was assigned to a store holding "dark" while the key
\* held something else, and the key was left alone.
C14_Witness ==
    /\ lastOp.op = "PreferredSet"
    /\ lastOp.arg = "dark"
    /\ pref[Main] = "dark"
    /\ localPreferred = "garbage"
    /\ lastOp.localWrites = <<>>
    /\ lastOp.prefEmit = <<>>

\* C15: assigning to the preferred scheme a valid value other than the one
\* held makes it the in-memory scheme, writes it to the persisted key, and
\* invokes every registered subscriber once, in one pass over the list, with
\* it; each subscriber already finds the new scheme in the store and under
\* the key.
C15_PreferredChangeWritesThenNotifies ==
    [][(/\ lastOp'.op = "PreferredSet"
        /\ lastOp'.tab = Main
        /\ lastOp'.arg \in ThreeState
        /\ lastOp'.arg # pref[Main]) =>
          /\ ~lastOp'.threw
          /\ pref'[Main] = lastOp'.arg
          /\ localPreferred' = lastOp'.arg
          /\ lastOp'.localWrites = <<lastOp'.arg>>
          /\ Len(lastOp'.calls) = Len(prefListeners)
          /\ \A i \in 1..Len(prefListeners) :
                /\ lastOp'.calls[i].store = "preferred"
                /\ lastOp'.calls[i].cb = prefListeners[i].cb
                /\ lastOp'.calls[i].reg = prefListeners[i].reg
                /\ lastOp'.calls[i].arg = lastOp'.arg
                /\ lastOp'.calls[i].scheme = lastOp'.arg
                /\ lastOp'.calls[i].stored = lastOp'.arg]_vars

\* C15 witness: "dark" replaced "auto" and two subscribers were invoked
\* with it.
C15_Witness ==
    /\ lastOp.op = "PreferredSet"
    /\ lastOp.arg = "dark"
    /\ pref[Main] = "dark"
    /\ localPreferred = "dark"
    /\ Len(lastOp.calls) = 2
    /\ \A i \in 1..Len(lastOp.calls) :
          lastOp.calls[i].arg = "dark" /\ lastOp.calls[i].stored = "dark"

\* C16: on a loaded page the root attribute data-bs-theme is what
\* getDefaultTheme() returns for the current scheme, and the theme-color
\* meta element holds the dark colour exactly when the current scheme is
\* "dark" and the light colour otherwise.
C16_DocumentFollowsScheme ==
    loaded[Main] =>
        /\ dataBsTheme = getDefaultTheme(cur)
        /\ metaContent = (IF cur = "dark" THEN "#212529" ELSE "#FFFFFF")

\* C16 witness: a system change to dark was propagated and the document
\* shows the dark theme and colour.
C16_Witness ==
    /\ lastOp.op = "SystemEvent"
    /\ lastOp.curEmit = <<"dark">>
    /\ cur = "dark"
    /\ dataBsTheme = "dark"
    /\ metaContent = "#212529"

\* The listener list of one of the page's two emitter stores.
ListenersOf(store) == IF store = "current" THEN curListeners ELSE prefListeners

\* The invocations, among calls, of the subscribers of one store.
CallsOf(calls, store) == SelectSeq(calls, LAMBDA c : c.store = store)

\* How many entries of a listener list, or of a sequence of invocations,
\* are for callback cb.
Count(seq, cb) == Cardinality({i \in 1..Len(seq) : seq[i].cb = cb})

\* C17: when a store of the page notifies a change, within the step of the
\* setter call or of the storage-event handler that triggers it, every
\* registered subscriber of that store is invoked, and the invocations come
\* in the order of the on() calls that registered them.
C17_RegistrationOrder ==
    [][\A store \in EmitterStores :
          LET emitted == IF store = "current" THEN lastOp'.curEmit # <<>>
                         ELSE lastOp'.prefEmit # <<>> /\ lastOp'.tab = Main
              cs == CallsOf(lastOp'.calls, store)
              L == ListenersOf(store)
          IN  emitted =>
                /\ lastOp'.op \in {"CurrentSet", "PreferredSet", "StorageEvent"}
                /\ Len(cs) = Len(L)
                /\ {cs[i].reg : i \in 1..Len(cs)} = {L[i].reg : i \in 1..Len(L)}
                /\ \A i, j \in 1..Len(cs) : i < j => cs[i].reg < cs[j].reg]_vars

\* C17 witness: a storage event changed the preferred scheme and the two
\* subscribers were invoked, the one registered first before the other.
C17_Witness ==
    /\ lastOp.op = "StorageEvent"
    /\ Len(lastOp.calls) = 2
    /\ lastOp.calls[1].cb = "g"
    /\ lastOp.calls[2].cb = "f"
    /\ lastOp.calls[1].reg < lastOp.calls[2].reg

\* C18: when a subscriber throws while a change is notified, the
\* subscribers registered after it are invoked all the same, the setter call
\* does not throw, and the change stays applied: memory and key hold the new
\* scheme.
C18_ThrowingSubscriberIsolated ==
    [][\A store \in EmitterStores :
          LET cs == CallsOf(lastOp'.calls, store)
              L == ListenersOf(store)
          IN  (\E i \in 1..Len(cs) : cs[i].threw) =>
                /\ ~lastOp'.threw
                /\ Len(cs) = Len(L)
                /\ \A i \in 1..Len(L) : cs[i].reg = L[i].reg
                /\ (lastOp'.op = "CurrentSet") =>
                      /\ cur' = lastOp'.curEmit[1]
                      /\ session' = lastOp'.curEmit[1]
                /\ (lastOp'.op = "PreferredSet") =>
                      /\ pref'[Main] = lastOp'.arg
                      /\ localPreferred' = lastOp'.arg
                /\ (lastOp'.op = "StorageEvent" /\ lastOp'.arg \in ThreeState) =>
                      pref'[Main] = lastOp'.arg]_vars

\* C18 witness: the current scheme was set to "dark"; the third subscriber
\* threw, the fourth was invoked, and the scheme is "dark" in the cache and
\* under the key.
C18_Witness ==
    /\ lastOp.op = "CurrentSet"
    /\ ~lastOp.threw
    /\ Len(lastOp.calls) = 4
    /\ lastOp.calls[3].threw
    /\ lastOp.calls[4].cb = "f"
    /\ cur = "dark"
    /\ session = "dark"

\* C19, as claimed: the change that follows a call of the unsubscribe
\* function returned for a callback does not invoke that callback.
C19_UnsubscribedNeverInvoked ==
    [][(lastOp.op = "Unsubscribe" /\ lastOp.handle.store \in EmitterStores) =>
          \A i \in 1..Len(lastOp'.calls) :
              ~(/\ lastOp'.calls[i].store = lastOp.handle.store
                /\ lastOp'.calls[i].cb = lastOp.handle.cb)]_vars

\* C19, amended: a call of the unsubscribe function removes one registration
\* of its callback from the store, if there is one, and leaves the
\* registrations of every other callback and of the other store as they
\* were; a change invokes each callback once for every registration it has,
\* so a callback with no registration left is not invoked and every other
\* subscriber keeps being invoked.
C19_UnsubscribeRemovesOneRegistration ==
    [][/\ (lastOp'.op = "Unsubscribe"
              /\ lastOp'.handle.store \in EmitterStores) =>
          LET store == lastOp'.handle.store
              cb == lastOp'.handle.cb
              L == ListenersOf(store)
              after == IF store = "current" THEN curListeners'
                       ELSE prefListeners'
          IN  /\ Count(after, cb) =
                    (IF Count(L, cb) = 0 THEN 0 ELSE Count(L, cb) - 1)
              /\ SelectSeq(after, LAMBDA e : e.cb # cb)
                    = SelectSeq(L, LAMBDA e : e.cb # cb)
              /\ store = "current" => prefListeners' = prefListeners
              /\ store = "preferred" => curListeners' = curListeners
       /\ \A store \in EmitterStores :
             LET emitted == IF store = "current" THEN lastOp'.curEmit # <<>>
                            ELSE lastOp'.prefEmit # <<>> /\ lastOp'.tab = Main
                 cs == CallsOf(lastOp'.calls, store)
             IN  \A cb \in Callbacks :
                   Count(cs, cb) =
                       (IF emitted THEN Count(ListenersOf(store), cb) ELSE 0)]_vars

\* C19 witness: "f" and "g" subscribed to the preferred store, "f" was
\* unsubscribed, and a storage event then invoked "g" alone.
C19_Witness ==
    /\ lastOp.op = "StorageEvent"
    /\ \E h \in handles : h.store = "preferred" /\ h.cb = "f"
    /\ Count(prefListeners, "f") = 0
    /\ Len(lastOp.calls) = 1
    /\ lastOp.calls[1].cb = "g"

\* C20: right after a call of the unsubscribe function returned by
\* SystemSchemeStorage.onSchemeChange, the listener added at subscription
\* time is registered on no media-query list object.
C20_SystemUnsubscribeDeregisters ==
    (lastOp.op = "Unsubscribe" /\ lastOp.handle.store = "system") =>
        \A i \in 1..Len(sysListeners) : sysListeners[i].reg # lastOp.handle.reg

\* C21: getDefaultTheme() returns the value the darkThemeName field has at
\* the time of the call when the current scheme is "dark", and the value
\* of lightThemeName otherwise; the call changes neither the cached scheme
\* nor any storage key nor the document, and notifies nobody.
C21_GetDefaultThemePure ==
    [][lastOp'.op = "getDefaultTheme" =>
          /\ lastOp'.ret = (IF cur = "dark" THEN darkThemeName
                                             ELSE lightThemeName)
          /\ (lastOp'.ret = darkThemeName /\ darkThemeName # lightThemeName)
                 => cur = "dark"
          /\ cur' = cur
          /\ session' = session
          /\ localPreferred' = localPreferred
          /\ pref' = pref
          /\ dataBsTheme' = dataBsTheme
          /\ metaContent' = metaContent
          /\ lastOp'.sessionWrites = <<>>
          /\ lastOp'.localWrites = <<>>
          /\ lastOp'.calls = <<>>
          /\ ~lastOp'.threw]_vars

\* The call is made with a dark current scheme after darkThemeName was
\* renamed, and returns the new name.
C21_Witness ==
    /\ lastOp.op = "getDefaultTheme"
    /\ cur = "dark"
    /\ darkThemeName = "night"
    /\ lightThemeName = "light"
    /\ lastOp.ret = "night"
    /\ curListeners # <<>>

\* C22: an assignment to darkThemeName or lightThemeName notifies no
\* subscriber and leaves the cached scheme, the session-scoped key and the
\* root attribute as they were; the root attribute changes only in a step
\* that changes the current scheme, and then takes the name the fields
\* give for the new scheme.
C22_RenameIsNotRetroactive ==
    [][/\ lastOp'.op \in {"SetDarkThemeName", "SetLightThemeName"} =>
             /\ lastOp'.calls = <<>>
             /\ lastOp'.curEmit = <<>>
             /\ lastOp'.prefEmit = <<>>
             /\ lastOp'.sessionWrites = <<>>
             /\ cur' = cur
             /\ session' = session
             /\ dataBsTheme' = dataBsTheme
       /\ (loaded[Main] /\ cur' # cur) =>
             dataBsTheme' = (IF cur' = "dark" THEN darkThemeName
                                              ELSE lightThemeName)
       /\ (loaded[Main] /\ dataBsTheme' # dataBsTheme) => cur' # cur]_vars

\* The dark theme was just renamed while the scheme is dark: the root
\* attribute still carries the old name.
C22_Witness ==
    /\ lastOp.op = "SetDarkThemeName"
    /\ lastOp.arg = "night"
    /\ cur = "dark"
    /\ darkThemeName = "night"
    /\ dataBsTheme = "dark"
    /\ session = "dark"

\* C23: from the moment CurrentColorSchemeStorage has been constructed (its
\* scheme resolved) or its setter called, the session-scoped key
\* "currentColorScheme" holds the current resolved scheme.
C23_SessionKeyHoldsCurrent ==
    loaded[Main] => (session \in Concrete /\ session = cur)

\* C24: whatever the key "theme-settings" holds (nothing, text that is no
\* JSON, JSON of any shape), loadSettings and initThemeModule return
\* without raising, settings.colorScheme is then "dark", "light" or "auto",
\* and when the content was malformed the default is stored under the key.
C24_LoadNeverFatal ==
    [][lastOp'.op \in {"loadSettings", "initThemeModule"} =>
          LET data == themeSettings
              malformed ==
                  /\ data # Null
                  /\ \/ ~Parseable(data)
                     \/ JsonParse(data).kind # "object"
                     \/ JsonParse(data).colorScheme \notin ThreeState
          IN  /\ ~lastOp'.threw
              /\ settings'.kind = "object"
              /\ settings'.colorScheme \in ThreeState
              /\ malformed => themeSettings' = JsonStringify(Obj("auto"))]_vars

\* C25: after any number n >= 1 of calls of
\* adaptInputsToUserPreferredColorScheme, directly or through
\* initThemeModule, exactly one style sheet has been pushed to
\* document.adoptedStyleSheets by it; a call after the first changes
\* nothing.
C25_AdaptInputsIdempotent ==
    [][lastOp'.op \in {"adaptInputsToUserPreferredColorScheme",
                       "initThemeModule"} =>
          /\ adoptedStyleSheets' = 1
          /\ styleSheetUsed'
          /\ styleSheetUsed => adoptedStyleSheets' = adoptedStyleSheets
          /\ (styleSheetUsed
                 /\ lastOp'.op = "adaptInputsToUserPreferredColorScheme") =>
                /\ themeSettings' = themeSettings
                /\ settings' = settings
                /\ currentColorScheme' = currentColorScheme
                /\ dataBsTheme' = dataBsTheme
                /\ themeMetas' = themeMetas
                /\ systemHandlers' = systemHandlers]_vars

\* A second direct call, made after initThemeModule has run twice: one
\* sheet.
C25_Witness ==
    /\ lastOp.op = "adaptInputsToUserPreferredColorScheme"
    /\ themeMetas = 2 * MaxInits
    /\ systemHandlers = MaxInits
    /\ styleSheetUsed
    /\ adoptedStyleSheets = 1

\* C26: a change of the preferred scheme, by the local setter or by a
\* storage event, leaves CurrentColorSchemeStorage.scheme and the
\* session-scoped key as they are and notifies no current-scheme
\* subscriber; once constructed, the current scheme changes only in a call
\* of its own setter or in a system change handled while the preferred
\* scheme is "auto".
C26_PreferredChangeLeavesCurrent ==
    [][/\ (lastOp'.op \in {"PreferredSet", "StorageEvent"}
              /\ lastOp'.tab = Main) =>
             /\ cur' = cur
             /\ session' = session
             /\ lastOp'.sessionWrites = <<>>
             /\ lastOp'.curEmit = <<>>
             /\ CallsOf(lastOp'.calls, "current") = <<>>
             /\ dataBsTheme' = dataBsTheme
             /\ metaContent' = metaContent
       /\ (cur' # cur /\ lastOp'.op # "Bootstrap") =>
             \/ lastOp'.op = "CurrentSet"
             \/ lastOp'.op = "SystemEvent" /\ pref[Main] = "auto"]_vars

\* The preferred scheme has just changed to "dark" through a storage
\* event while the current scheme, its key and the document stay light.
C26_Witness ==
    /\ lastOp.op = "StorageEvent"
    /\ lastOp.tab = Main
    /\ lastOp.prefEmit = <<"dark">>
    /\ pref[Main] = "dark"
    /\ cur = "light"
    /\ session = "light"
    /\ dataBsTheme = "light"

\* C27: when a subscriber has assigned the store's scheme while it was
\* being notified, then after the outermost setter call has returned the
\* last value delivered to every subscriber equals the store's scheme.
C27_NoStaleValueAfterReentry ==
    [][(/\ lastOp'.op = "CurrentSet"
        /\ \E i \in 1..Len(lastOp'.calls) : lastOp'.calls[i].cb = "s"
        /\ Len(lastOp'.curEmit) > 1) =>
          \A i \in 1..Len(lastOp'.calls) :
              (\A j \in (i + 1)..Len(lastOp'.calls) :
                   lastOp'.calls[j].reg # lastOp'.calls[i].reg)
                  => lastOp'.calls[i].arg = cur']_vars

\* C28: in a single browsing context that receives no storage event, once
\* PreferredSchemeStorage is constructed and after any sequence of calls
\* of its scheme setter, the key "preferredColorScheme" holds exactly the
\* in-memory preferred scheme.
C28_PersistedEqualsPreferred == loaded[Main] => localPreferred = pref[Main]

\* C29: in every state of one browsing context whose store is constructed,
\* if the session-scoped key holds "dark" or "light" then it equals
\* CurrentColorSchemeStorage.scheme.
C29_SessionKeyAgreesWithCache ==
    (loaded[Main] /\ session \in Concrete) => session = cur

\* The setter has just replaced a light scheme by the system's dark one,
\* asked for with "auto": the key and the cache both hold "dark".
C29_Witness ==
    /\ loaded[Main]
    /\ lastOp.op = "CurrentSet"
    /\ lastOp.arg = "auto"
    /\ lastOp.sessionWrites = <<"dark">>
    /\ session = "dark"
    /\ cur = "dark"

\* C30: the constructor of PreferredSchemeStorage, having read a valid
\* value under the persisted key, does not change the value of the key
\* with its write, whatever another context has written in between.
C30_ConstructorKeepsKey ==
    [][(lastOp'.op = "ConstructWrite" /\ ctorData \in ThreeState) =>
          localPreferred' = localPreferred]_vars

\* C31: calling an unsubscribe function again has no further effect: a
\* second call in a row of the same unsubscribe function leaves the
\* listeners of both stores as they are, so that another registration of
\* the same callback stays active.
C31_UnsubscribeIdempotent ==
    [][(/\ lastOp.op = "Unsubscribe"
        /\ lastOp'.op = "Unsubscribe"
        /\ lastOp'.handle = lastOp.handle) =>
          /\ curListeners' = curListeners
          /\ prefListeners' = prefListeners]_vars

\* C32: the subscribers invoked for one change are the ones registered
\* when the notification starts, in that order: one that an earlier
\* subscriber unsubscribes during the notification is still invoked, one
\* registered during the notification is not; being in the list from then
\* on, it is invoked for the next change.
C32_NotifiedSetIsSnapshot ==
    [][(lastOp'.op = "CurrentSet" /\ lastOp'.curEmit # <<>>) =>
          /\ Len(lastOp'.calls) = Len(curListeners)
          /\ \A i \in 1..Len(curListeners) :
                 /\ lastOp'.calls[i].reg = curListeners[i].reg
                 /\ lastOp'.calls[i].cb = curListeners[i].cb
          /\ \A i \in 1..Len(curListeners') :
                 curListeners'[i].reg >= nextReg =>
                     /\ curListeners'[i].cb = "f"
                     /\ \A j \in 1..Len(lastOp'.calls) :
                            lastOp'.calls[j].reg # curListeners'[i].reg]_vars

\* One change in which "u" unsubscribed f and "a" then registered f again:
\* the f registered before was still invoked, after "u"; the f registered
\* by "a" was not, and is the one in the list now.
C32_Witness ==
    /\ lastOp.op = "CurrentSet"
    /\ Len(lastOp.calls) = 5
    /\ lastOp.calls[3].cb = "u"
    /\ lastOp.calls[4].cb = "a"
    /\ lastOp.calls[5].cb = "f"
    /\ Len(curListeners) = 5
    /\ curListeners[5].cb = "f"
    /\ curListeners[5].reg = nextReg - 1
    /\ curListeners[5].reg # lastOp.calls[5].reg

\* C33: a storage event whose key is not "preferredColorScheme" (the null
\* key of a cleared store included), or whose coerced new value equals the
\* in-memory preferred scheme, leaves the in-memory preferred scheme
\* unchanged and notifies no subscriber.
C33_OtherStorageEventsIgnored ==
    [][(/\ lastOp'.op = "StorageEvent"
        /\ lastOp'.tab = Main
        /\ evq[Main] # <<>>
        /\ \/ Head(evq[Main]).key # PreferredKey
           \/ ValidatedValue(Head(evq[Main]).newValue) = pref[Main]) =>
          /\ pref' = pref
          /\ lastOp'.prefEmit = <<>>
          /\ lastOp'.calls = <<>>
          /\ localPreferred' = localPreferred
          /\ cur' = cur]_vars

\* An event for the key "theme-settings" with the new value "dark" has
\* been handled by a page whose preferred scheme is "light" and has a
\* subscriber: nothing changed.
C33_Witness ==
    /\ lastOp.op = "StorageEvent"
    /\ lastOp.tab = Main
    /\ lastOp.arg = "dark"
    /\ lastOp.prefEmit = <<>>
    /\ themeSettings = "dark"
    /\ localPreferred = "light"
    /\ pref[Main] = "light"
    /\ prefListeners # <<>>

C35_RootAttributeIsCurrent ==
    systemHandlers > 0 =>
        /\ currentColorScheme \in Concrete
        /\ dataBsTheme = currentColorScheme

\* C36: started with no session cache, the same persisted preference and
\* the same system scheme, and driven by the same preference changes,
\* current-scheme sets and system changes, getCurrentColorScheme() of the
\* free-function API and CurrentColorSchemeStorage.scheme are equal after
\* every step.
C36_SameCascade == loaded[Main] => currentColorScheme = cur

\* C37: after any sequence of on, removeListener, unsubscribe and
\* clearEventListeners calls, a call emits "#has-listeners" with an event
\* name exactly when that event is none of "#has-listeners" and
\* "#no-listeners" and its number of listeners goes from 0 to 1, and
\* emits "#no-listeners" with it exactly when that number goes from 1 to 0.
C37_ListenerSignalsExact ==
    [][\A event \in EmitterEvents :
          LET emitted(signal) ==
                  \E i \in 1..Len(lastOp'.signals) :
                      lastOp'.signals[i] = [signal |-> signal, event |-> event]
          IN  /\ emitted("#has-listeners") <=>
                     /\ event \notin SpecialEvents
                     /\ Len(events[event]) = 0
                     /\ Len(events'[event]) = 1
              /\ emitted("#no-listeners") <=>
                     /\ event \notin SpecialEvents
                     /\ Len(events[event]) = 1
                     /\ Len(events'[event]) = 0]_vars

==========================================================================
